---- MODULE Spec2Model ----
(***************************************************************************)
(* Campaign dispatcher (supabase/functions/process-campaign-queue) and the *)
(* operator commands of campaignsService, over one campaign and its        *)
(* message rows.  Every store call (one awaited supabase request) is one   *)
(* atomic step; a dispatcher invocation is a sequence of such steps, and   *)
(* several invocations may run at the same time.                           *)
(*                                                                         *)
(* Instants are abstract: sent_at holds the write that set it, started_at  *)
(* the invocation that set it, and of scheduled_at only whether it has     *)
(* been reached.  Of the store calls only the eligibility query may fail;  *)
(* the pacing delay and the budget are choices of the environment.         *)
(* execution_time is not a variable.                                       *)
(*                                                                         *)
(* The schedule calculator (lib/campaign-utils) and the pacing of one      *)
(* invocation on a clock are looked at in specifications of their own,     *)
(* with the variable calc; there the service is at rest.  So is the        *)
(* admission planner (checkScheduleConflict).  The create command runs     *)
(* beside the dispatcher in SpecCreate; SpecLive and SpecStall put the     *)
(* dispatcher under a trigger that comes again and again, with fairness.   *)
(*                                                                         *)
(* Further specifications on calc: SpecGate applies the two pause gates to *)
(* a config, a clock reading and a start instant; SpecClock runs           *)
(* invocations one after another on the clock, with sends that take time,  *)
(* failed sends and a retry; SpecCounter follows the stored counter and    *)
(* each invocation's copy under concurrent invocations; SpecReads lets the *)
(* store reads of one invocation fail; SpecConfig reads one stored config  *)
(* with parseConfig and with mapDbConfigToScheduleConfig.                  *)
(***************************************************************************)
EXTENDS Integers, FiniteSets, Sequences, TLC

\* ---- bounds of the model -------------------------------------------------
NumWorkers == 2       \* dispatcher invocations that may run concurrently
NumMessages == 2      \* message rows of the campaign
MaxInvocations == 3   \* dispatcher invocations started in one behaviour
MaxCommands == 1      \* operator commands issued in one behaviour

Workers == 1..NumWorkers
Messages == 1..NumMessages

\* ---- values --------------------------------------------------------------
Null == "null"
ClaimInstant == "claim_instant"     \* sent_at written by the lock (l.423)
CommitInstant == "commit_instant"   \* sent_at written by the commit (l.467)

EligibleStatuses_StartingOnly == {"scheduled", "pending", "active"}
EligibleStatuses == {"scheduled", "pending", "processing", "active"}
StartingStatuses == {"scheduled", "pending", "active"}
StopStatuses == {"paused", "canceled"}
InitialStatuses == {"scheduled", "active"}
WaitingStatuses_WithFailed == {"aguardando", "pending", "failed"}
WaitingStatuses_WithSending == {"aguardando", "pending", "sending"}
WaitingStatuses == {"aguardando", "pending"}
RemainingStatuses == {"aguardando", "sending", "pending"}

\* business-hours defaults of the dispatcher and the sampled hours of day
DefaultPauseHour == 18
DefaultResumeHour == 8
BrtHourSamples == {17, 18}

\* answers of the send endpoint: HTTP ok flag and the body's success field,
\* or no answer at all (fetch or response.json() threw), or no contact row
Responses ==
  [kind : {"answer"}, ok : BOOLEAN, success : BOOLEAN]
    \cup {[kind |-> "threw", ok |-> FALSE, success |-> FALSE],
          [kind |-> "no_contact", ok |-> FALSE, success |-> FALSE]}
NoResponse == [kind |-> "none", ok |-> FALSE, success |-> FALSE]

\* a value of config.businessHoursPauseTime that is no text (a JSON number)
NotText == "not_text"

\* the HTTP response of an invocation: status code, the success field of the
\* body, and the status of each entry of results
NoReply == [http |-> 0, success |-> FALSE, results |-> << >>]
OkResponse(results) == [http |-> 200, success |-> TRUE, results |-> results]
ErrorResponse_500 == [http |-> 500, success |-> FALSE, results |-> << >>]
ErrorResponse == [http |-> 200, success |-> FALSE, results |-> << >>]

\* the calculator is not in use
NoCalc == [phase |-> "none"]

\* no create command is in the run
NoCreate == [phase |-> "none", contactIds |-> << >>, i |-> 0]

VARIABLES
  campaignStatus,     \* campaigns.status
  started_at,         \* campaigns.started_at: 0 (null) or the invocation that set it
  finished_at,        \* campaigns.finished_at: Null or set
  sent_messages,      \* campaigns.sent_messages
  businessHoursStrategy,  \* campaigns.config
  businessHoursPauseTime, \* campaigns.config: Null (absent) or a value
                          \*   that is no text
  scheduled_due,      \* campaigns.scheduled_at <= the clock
  msg,                \* campaign_messages rows: status, sent_at, error_message
  pc,                 \* position of each dispatcher invocation
  campaign,           \* the invocation's copy of the campaign row
  messageToLock,      \* the id selected for locking
  lockedMessage,      \* the row the invocation locked
  response,           \* the answer to the invocation's send request
  reply,              \* the HTTP response the invocation returns
  realSentCount,      \* finalizeCampaign's count of sent rows
  invocations,        \* dispatcher invocations started so far
  commands,           \* operator commands issued so far
  calc,               \* input and result of the schedule calculator and of
                      \*   the pacing computation, outside the service runs
  sendCalls,          \* history: calls of the send endpoint per message
  locksTaken,         \* history: locks of m that took effect
  lockWins,           \* history: locks of m that took effect during m's
                      \*   current stay in waiting
  retryIssued,        \* history: a retry-message command was issued
  scanTookUndue,      \* history: an invocation without campaign_id took
                      \*   the campaign while it was not due
  pauseInEffect,      \* history: a pause of the running campaign was
                      \*   persisted and no resume was issued since
  sentSincePause,     \* history: rows committed as sent since that pause
  claimsAfterSent,    \* history: locks that took effect after such a commit
  total_messages,     \* campaigns.total_messages
  create              \* position and arguments of the create command

storeVars == <<campaignStatus, started_at, finished_at, sent_messages,
               businessHoursStrategy, businessHoursPauseTime, scheduled_due,
               msg>>
workerVars == <<pc, campaign, messageToLock, lockedMessage, response, reply,
                realSentCount, invocations>>
historyVars == <<sendCalls, locksTaken, lockWins, retryIssued, scanTookUndue,
                 pauseInEffect, sentSincePause, claimsAfterSent>>
createVars == <<total_messages, create>>
vars == <<storeVars, workerVars, commands, calc, historyVars, createVars>>

NoCampaign == [status |-> Null, started_at |-> 0]

CountMessages(statuses) ==
  Cardinality({m \in DOMAIN msg : msg[m].status \in statuses})

\* a created campaign with the message rows `rows`, no invocation running
Created(rows, due) ==
  /\ campaignStatus \in InitialStatuses
  /\ started_at = 0
  /\ finished_at = Null
  /\ sent_messages = 0
  /\ businessHoursStrategy \in {"ignore", "pause"}
  /\ businessHoursPauseTime \in
       IF businessHoursStrategy = "pause" THEN {Null, NotText} ELSE {Null}
  /\ scheduled_due = due
  /\ msg = [m \in rows |->
              [status |-> "aguardando", sent_at |-> Null, error_message |-> Null]]
  /\ reply = [w \in Workers |-> NoReply]
  /\ scanTookUndue = FALSE
  /\ pc = [w \in Workers |-> "idle"]
  /\ campaign = [w \in Workers |-> NoCampaign]
  /\ messageToLock = [w \in Workers |-> 0]
  /\ lockedMessage = [w \in Workers |-> 0]
  /\ response = [w \in Workers |-> NoResponse]
  /\ realSentCount = [w \in Workers |-> 0]
  /\ invocations = 0
  /\ commands = 0
  /\ sendCalls = [m \in Messages |-> 0]
  /\ locksTaken = [m \in Messages |-> 0]
  /\ lockWins = [m \in Messages |-> 0]
  /\ retryIssued = FALSE
  /\ pauseInEffect = FALSE
  /\ sentSincePause = 0
  /\ claimsAfterSent = 0
  /\ total_messages = Cardinality(rows)
  /\ create = NoCreate

\* the campaign is due and has all its rows
Init == Created(Messages, TRUE) /\ calc = NoCalc

\* ---- dispatcher ----------------------------------------------------------

\* l.103-115: the campaign is a row of the eligibility query; the filter
\* on scheduled_at is applied only when the body names no campaign_id
EligibilityQuery_NoSchedule(campaign_id) ==
  campaignStatus \in EligibleStatuses
EligibilityQuery(campaign_id) ==
  /\ campaignStatus \in EligibleStatuses
  /\ campaign_id \/ scheduled_due

\* l.90-133: the eligibility query; on an error of the query the handler
\* throws (l.119), else the invocation keeps the row it read, and without a
\* row it returns empty results
Invoke(w) ==
  /\ pc[w] = "idle"
  /\ invocations < MaxInvocations
  /\ invocations' = invocations + 1
  /\ \E campaign_id \in BOOLEAN, campaignsError \in BOOLEAN :
       IF campaignsError
         THEN /\ reply' = [reply EXCEPT ![w] = ErrorResponse]
              /\ pc' = [pc EXCEPT ![w] = "respond"]
              /\ UNCHANGED <<campaign, scanTookUndue>>
         ELSE IF EligibilityQuery(campaign_id)
           THEN /\ campaign' = [campaign EXCEPT ![w] =
                     [status |-> campaignStatus, started_at |-> started_at]]
                /\ pc' = [pc EXCEPT ![w] = "begin"]
                /\ scanTookUndue' =
                     (scanTookUndue \/ (~campaign_id /\ ~scheduled_due))
                /\ UNCHANGED reply
           ELSE /\ reply' = [reply EXCEPT ![w] = OkResponse(<< >>)]
                /\ pc' = [pc EXCEPT ![w] = "respond"]
                /\ UNCHANGED <<campaign, scanTookUndue>>
  /\ UNCHANGED <<storeVars, messageToLock, lockedMessage, response,
                 realSentCount, commands, calc,
                 createVars, sendCalls, locksTaken,
                 lockWins, retryIssued, pauseInEffect, sentSincePause,
                 claimsAfterSent>>

\* l.135-156: transition to processing, decided on the invocation's copy
Begin(w) ==
  /\ pc[w] = "begin"
  /\ IF campaign[w].status \in StartingStatuses
       THEN /\ campaignStatus' = "processing"
            /\ started_at' = IF campaign[w].started_at = 0 THEN w ELSE started_at
            /\ campaign' = [campaign EXCEPT ![w] =
                 [status |-> "processing",
                  started_at |-> IF campaign[w].started_at = 0
                                   THEN w ELSE campaign[w].started_at]]
       ELSE UNCHANGED <<campaignStatus, started_at, campaign>>
  /\ pc' = [pc EXCEPT ![w] = "gate"]
  /\ UNCHANGED <<finished_at, sent_messages, businessHoursStrategy,
                 businessHoursPauseTime, scheduled_due, msg, messageToLock,
                 lockedMessage, response, reply, realSentCount,
                 invocations, commands, calc, createVars, historyVars>>

\* l.164-167, l.216-231: the business-hours gate, on the hour of day in BRT
\* read from the clock when the gate is evaluated
ShouldPause_IgnoresStrategy(brtHours) ==
  ~(brtHours >= DefaultResumeHour /\ brtHours < DefaultPauseHour)
ShouldPause(brtHours) ==
  /\ businessHoursStrategy = "pause"
  /\ ~(brtHours >= DefaultResumeHour /\ brtHours < DefaultPauseHour)

\* l.160-303 up to the pending count: pause gates, then the completion
\* check; a closed gate persisted as status paused
Gate_SetsPaused(w) ==
  /\ pc[w] = "gate"
  /\ \E brtHours \in BrtHourSamples :
       IF ShouldPause(brtHours)
         THEN /\ reply' = [reply EXCEPT ![w] =
                   OkResponse(<<"paused_temporarily">>)]
              /\ pc' = [pc EXCEPT ![w] = "respond"]
              /\ campaign' = [campaign EXCEPT ![w] = NoCampaign]
              /\ campaignStatus' = "paused"
         ELSE /\ pc' = [pc EXCEPT ![w] =
                   IF CountMessages(WaitingStatuses) = 0
                     THEN "active" ELSE "loop"]
              /\ UNCHANGED <<campaign, reply, campaignStatus>>
  /\ UNCHANGED <<started_at, finished_at, sent_messages,
                 businessHoursStrategy, businessHoursPauseTime,
                 scheduled_due, msg, messageToLock, lockedMessage, response,
                 realSentCount, invocations, commands, calc,
                 createVars, historyVars>>

\* l.160-303 up to the pending count: pause gates, then the completion
\* check.  With the strategy pause, a pause time that is no text makes
\* .split throw (l.219) and the handler's catch answers (l.516-531)
Gate(w) ==
  /\ pc[w] = "gate"
  /\ IF businessHoursStrategy = "pause" /\ businessHoursPauseTime = NotText
       THEN /\ reply' = [reply EXCEPT ![w] = ErrorResponse]
            /\ pc' = [pc EXCEPT ![w] = "respond"]
            /\ campaign' = [campaign EXCEPT ![w] = NoCampaign]
       ELSE \E brtHours \in BrtHourSamples :
         IF ShouldPause(brtHours)
           THEN /\ reply' = [reply EXCEPT ![w] =
                     OkResponse(<<"paused_temporarily">>)]
                /\ pc' = [pc EXCEPT ![w] = "respond"]
                /\ campaign' = [campaign EXCEPT ![w] = NoCampaign]
           ELSE /\ pc' = [pc EXCEPT ![w] =
                     IF CountMessages(WaitingStatuses) = 0
                       THEN "active" ELSE "loop"]
                /\ UNCHANGED <<campaign, reply>>
  /\ UNCHANGED <<storeVars, messageToLock, lockedMessage, response,
                 realSentCount, invocations, commands, calc,
                 createVars, historyVars>>

\* l.290-303: no pending row was counted; count the rows in sending
ActiveCheck(w) ==
  /\ pc[w] = "active"
  /\ pc' = [pc EXCEPT ![w] =
       IF CountMessages({"sending"}) = 0 THEN "fin_count" ELSE "loop"]
  /\ UNCHANGED <<storeVars, campaign, messageToLock, lockedMessage, response, reply,
                 realSentCount, invocations, commands, calc,
                 createVars, historyVars>>

\* l.250-255: finalizeCampaign counts the rows in sent
FinalizeCount(w) ==
  /\ pc[w] = "fin_count"
  /\ realSentCount' = [realSentCount EXCEPT ![w] = CountMessages({"sent"})]
  /\ pc' = [pc EXCEPT ![w] = "fin_update"]
  /\ UNCHANGED <<storeVars, campaign, messageToLock, lockedMessage, response, reply,
                 invocations, commands, calc, createVars, historyVars>>

\* l.257-272: finalizeCampaign writes the campaign row; both callers then
\* leave the campaign (l.299-301 and l.416-419, l.492)
FinalizeUpdate(w) ==
  /\ pc[w] = "fin_update"
  /\ campaignStatus' = "finished"
  /\ finished_at' = "set"
  /\ sent_messages' = realSentCount[w]
  /\ reply' = [reply EXCEPT ![w] = OkResponse(<<"finished">>)]
  /\ pc' = [pc EXCEPT ![w] = "respond"]
  /\ campaign' = [campaign EXCEPT ![w] = NoCampaign]
  /\ realSentCount' = [realSentCount EXCEPT ![w] = 0]
  /\ UNCHANGED <<started_at, businessHoursStrategy, businessHoursPauseTime,
                 scheduled_due, msg, messageToLock, lockedMessage, response,
                 invocations, commands, calc, createVars, historyVars>>

\* l.309-312: the budget of the invocation is used up
BudgetExhausted(w) ==
  /\ pc[w] = "loop"
  /\ pc' = [pc EXCEPT ![w] = "exectime"]
  /\ messageToLock' = [messageToLock EXCEPT ![w] = 0]
  /\ UNCHANGED <<storeVars, campaign, lockedMessage, response, reply,
                 realSentCount, invocations, commands, calc,
                 createVars, historyVars>>

\* l.313-327: re-read of the campaign's status at the top of the send loop
RereadStatus(w) ==
  /\ pc[w] = "loop"
  /\ pc' = [pc EXCEPT ![w] =
       IF campaignStatus \in StopStatuses THEN "exectime" ELSE "lastsent"]
  /\ messageToLock' = [messageToLock EXCEPT ![w] = 0]
  /\ UNCHANGED <<storeVars, campaign, lockedMessage, response, reply,
                 realSentCount, invocations, commands, calc,
                 createVars, historyVars>>

\* l.329-342: some row of the campaign has a sent_at
HasMessagesSentReally == \E m \in DOMAIN msg : msg[m].sent_at # Null

\* l.344-396: the pacing delay has passed, or is slept out within the budget
PacingProceed(w) ==
  /\ pc[w] = "lastsent"
  /\ pc' = [pc EXCEPT ![w] = "select"]
  /\ UNCHANGED <<storeVars, campaign, messageToLock, lockedMessage, response, reply,
                 realSentCount, invocations, commands, calc,
                 createVars, historyVars>>

\* l.379-394: the wait would end after the budget; only when a row was sent
PacingBreak(w) ==
  /\ pc[w] = "lastsent"
  /\ HasMessagesSentReally
  /\ pc' = [pc EXCEPT ![w] = "exectime"]
  /\ UNCHANGED <<storeVars, campaign, messageToLock, lockedMessage, response, reply,
                 realSentCount, invocations, commands, calc,
                 createVars, historyVars>>

\* l.398-407: select the id of one row in waiting, any of them
SelectMessage(w) ==
  /\ pc[w] = "select"
  /\ \/ \E m \in DOMAIN msg :
          /\ msg[m].status \in WaitingStatuses
          /\ messageToLock' = [messageToLock EXCEPT ![w] = m]
          /\ pc' = [pc EXCEPT ![w] = "lock"]
     \/ /\ CountMessages(WaitingStatuses) = 0
        /\ pc' = [pc EXCEPT ![w] = "remaining"]
        /\ UNCHANGED messageToLock
  /\ UNCHANGED <<storeVars, campaign, lockedMessage, response, reply,
                 realSentCount, invocations, commands, calc,
                 createVars, historyVars>>

\* l.407-420: nothing selected; finalize when nothing is waiting or sending
Remaining(w) ==
  /\ pc[w] = "remaining"
  /\ pc' = [pc EXCEPT ![w] =
       IF CountMessages(RemainingStatuses) = 0 THEN "fin_count" ELSE "exectime"]
  /\ UNCHANGED <<storeVars, campaign, messageToLock, lockedMessage, response, reply,
                 realSentCount, invocations, commands, calc,
                 createVars, historyVars>>

\* l.424-428: the lock is a conditional update; it takes effect only on a
\* row that is still in a waiting status
LockTakesEffect_NoFilter(m) == TRUE
LockTakesEffect(m) == msg[m].status \in WaitingStatuses

\* l.422-434: lock the selected row, or go round the loop when no row came
\* back (messageToLock then still names the row that was not obtained)
LockMessage_NoSend(w) ==
  /\ pc[w] = "lock"
  /\ LET m == messageToLock[w] IN
       IF LockTakesEffect(m)
         THEN /\ msg' = [msg EXCEPT ![m].status = "sending",
                                    ![m].sent_at = ClaimInstant]
              /\ lockedMessage' = [lockedMessage EXCEPT ![w] = m]
              /\ messageToLock' = [messageToLock EXCEPT ![w] = 0]
              /\ pc' = [pc EXCEPT ![w] = "loop"]
              /\ locksTaken' = [locksTaken EXCEPT ![m] = @ + 1]
              /\ lockWins' = [lockWins EXCEPT ![m] = @ + 1]
              /\ claimsAfterSent' =
                   IF pauseInEffect /\ sentSincePause > 0
                     THEN claimsAfterSent + 1 ELSE claimsAfterSent
         ELSE /\ pc' = [pc EXCEPT ![w] = "loop"]
              /\ UNCHANGED <<msg, lockedMessage, messageToLock, locksTaken,
                             lockWins, claimsAfterSent>>
  /\ UNCHANGED <<campaignStatus, started_at, finished_at, sent_messages,
                 businessHoursStrategy, businessHoursPauseTime,
                 scheduled_due, campaign, response, reply,
                 realSentCount, invocations, commands, calc, createVars,
                 sendCalls, retryIssued, scanTookUndue, pauseInEffect, sentSincePause>>
LockMessage(w) ==
  /\ pc[w] = "lock"
  /\ LET m == messageToLock[w] IN
       IF LockTakesEffect(m)
         THEN /\ msg' = [msg EXCEPT ![m].status = "sending",
                                    ![m].sent_at = ClaimInstant]
              /\ lockedMessage' = [lockedMessage EXCEPT ![w] = m]
              /\ messageToLock' = [messageToLock EXCEPT ![w] = 0]
              /\ pc' = [pc EXCEPT ![w] = "send"]
              /\ locksTaken' = [locksTaken EXCEPT ![m] = @ + 1]
              /\ lockWins' = [lockWins EXCEPT ![m] = @ + 1]
              /\ claimsAfterSent' =
                   IF pauseInEffect /\ sentSincePause > 0
                     THEN claimsAfterSent + 1 ELSE claimsAfterSent
         ELSE /\ pc' = [pc EXCEPT ![w] = "loop"]
              /\ UNCHANGED <<msg, lockedMessage, messageToLock, locksTaken,
                             lockWins, claimsAfterSent>>
  /\ UNCHANGED <<campaignStatus, started_at, finished_at, sent_messages,
                 businessHoursStrategy, businessHoursPauseTime,
                 scheduled_due, campaign, response, reply,
                 realSentCount, invocations, commands, calc, createVars,
                 sendCalls, retryIssued, scanTookUndue, pauseInEffect, sentSincePause>>

\* l.436-456: the request to the send endpoint and its answer; without a
\* contact row the code throws before the request
SendMessage(w) ==
  /\ pc[w] = "send"
  /\ \E r \in Responses :
       /\ response' = [response EXCEPT ![w] = r]
       /\ sendCalls' = [sendCalls EXCEPT ![lockedMessage[w]] =
            IF r.kind = "no_contact" THEN @ ELSE @ + 1]
  /\ pc' = [pc EXCEPT ![w] = "commit"]
  /\ UNCHANGED <<storeVars, campaign, messageToLock, lockedMessage, reply,
                 realSentCount, invocations, commands, calc,
                 createVars, locksTaken,
                 lockWins, retryIssued, scanTookUndue, pauseInEffect, sentSincePause,
                 claimsAfterSent>>

\* l.458: the send counts as done on a 2xx answer whose body has success
SendSucceeded_StatusOnly(r) == r.kind = "answer" /\ r.ok
SendSucceeded(r) == r.kind = "answer" /\ r.ok /\ r.success

\* l.462-470 and l.478-488: write the outcome on the locked row, by id
CommitMessage_KeepsClaimInstant(w) ==
  /\ pc[w] = "commit"
  /\ LET m == lockedMessage[w] IN
       IF SendSucceeded(response[w])
         THEN /\ msg' = [msg EXCEPT ![m] =
                   [status |-> "sent", sent_at |-> msg[m].sent_at,
                    error_message |-> Null]]
              /\ pc' = [pc EXCEPT ![w] = "incr"]
              /\ sentSincePause' =
                   IF pauseInEffect THEN sentSincePause + 1 ELSE sentSincePause
              /\ UNCHANGED lockedMessage
         ELSE /\ msg' = [msg EXCEPT ![m].status = "failed",
                                    ![m].error_message = "error"]
              /\ pc' = [pc EXCEPT ![w] = "loop"]
              /\ lockedMessage' = [lockedMessage EXCEPT ![w] = 0]
              /\ UNCHANGED sentSincePause
  /\ response' = [response EXCEPT ![w] = NoResponse]
  /\ UNCHANGED <<campaignStatus, started_at, finished_at, sent_messages,
                 businessHoursStrategy, businessHoursPauseTime,
                 scheduled_due, campaign, messageToLock, reply,
                 realSentCount, invocations, commands, calc,
                 createVars, sendCalls, locksTaken,
                 lockWins, retryIssued, scanTookUndue, pauseInEffect, claimsAfterSent>>
CommitMessage(w) ==
  /\ pc[w] = "commit"
  /\ LET m == lockedMessage[w] IN
       IF SendSucceeded(response[w])
         THEN /\ msg' = [msg EXCEPT ![m] =
                   [status |-> "sent", sent_at |-> CommitInstant,
                    error_message |-> Null]]
              /\ pc' = [pc EXCEPT ![w] = "incr"]
              /\ sentSincePause' =
                   IF pauseInEffect THEN sentSincePause + 1 ELSE sentSincePause
              /\ UNCHANGED lockedMessage
         ELSE /\ msg' = [msg EXCEPT ![m].status = "failed",
                                    ![m].error_message = "error"]
              /\ pc' = [pc EXCEPT ![w] = "loop"]
              /\ lockedMessage' = [lockedMessage EXCEPT ![w] = 0]
              /\ UNCHANGED sentSincePause
  /\ response' = [response EXCEPT ![w] = NoResponse]
  /\ UNCHANGED <<campaignStatus, started_at, finished_at, sent_messages,
                 businessHoursStrategy, businessHoursPauseTime,
                 scheduled_due, campaign, messageToLock, reply,
                 realSentCount, invocations, commands, calc,
                 createVars, sendCalls, locksTaken,
                 lockWins, retryIssued, scanTookUndue, pauseInEffect, claimsAfterSent>>

\* the store procedure increment_campaign_sent: sent_messages + 1, atomic
increment_campaign_sent(n) == n + 1

\* l.472-477: the call of increment_campaign_sent after the commit as sent
IncrementCampaignSent(w) ==
  /\ pc[w] = "incr"
  /\ sent_messages' = increment_campaign_sent(sent_messages)
  /\ lockedMessage' = [lockedMessage EXCEPT ![w] = 0]
  /\ pc' = [pc EXCEPT ![w] = "loop"]
  /\ UNCHANGED <<campaignStatus, started_at, finished_at,
                 businessHoursStrategy, businessHoursPauseTime,
                 scheduled_due, msg, campaign, messageToLock,
                 response, reply, realSentCount, invocations, commands, calc,
                 createVars,
                 historyVars>>

\* l.491-507: the send loop was left without finalizing; execution_time is
\* written (the column is not part of this model) and the invocation returns
UpdateExecutionTime(w) ==
  /\ pc[w] = "exectime"
  /\ reply' = [reply EXCEPT ![w] = OkResponse(<<"continued">>)]
  /\ pc' = [pc EXCEPT ![w] = "respond"]
  /\ campaign' = [campaign EXCEPT ![w] = NoCampaign]
  /\ UNCHANGED <<storeVars, messageToLock, lockedMessage, response,
                 realSentCount, invocations, commands, calc,
                 createVars, historyVars>>

\* l.510-531: the HTTP response goes out and the invocation is over
Respond(w) ==
  /\ pc[w] = "respond"
  /\ reply' = [reply EXCEPT ![w] = NoReply]
  /\ pc' = [pc EXCEPT ![w] = "idle"]
  /\ UNCHANGED <<storeVars, campaign, messageToLock, lockedMessage, response,
                 realSentCount, invocations, commands, calc,
                 createVars, historyVars>>

DispatcherStep(w) ==
  \/ Invoke(w)
  \/ Begin(w)
  \/ Gate(w)
  \/ ActiveCheck(w)
  \/ FinalizeCount(w)
  \/ FinalizeUpdate(w)
  \/ BudgetExhausted(w)
  \/ RereadStatus(w)
  \/ PacingProceed(w)
  \/ PacingBreak(w)
  \/ SelectMessage(w)
  \/ Remaining(w)
  \/ LockMessage(w)
  \/ SendMessage(w)
  \/ CommitMessage(w)
  \/ IncrementCampaignSent(w)
  \/ UpdateExecutionTime(w)
  \/ Respond(w)

\* ---- operator commands (campaignsService) --------------------------------

\* statuses of a running campaign (the pause that C7 is about)
RunningStatuses == {"processing", "active"}

\* the campaigns row as the store holds it
CampaignRow ==
  [status |-> campaignStatus, started_at |-> started_at,
   finished_at |-> finished_at, sent_messages |-> sent_messages,
   businessHoursStrategy |-> businessHoursStrategy,
   businessHoursPauseTime |-> businessHoursPauseTime,
   scheduled_due |-> scheduled_due]

\* an update of the campaigns row, by id, leaves the row as given
UpdateCampaignRow(row) ==
  /\ campaignStatus' = row.status
  /\ started_at' = row.started_at
  /\ finished_at' = row.finished_at
  /\ sent_messages' = row.sent_messages
  /\ businessHoursStrategy' = row.businessHoursStrategy
  /\ businessHoursPauseTime' = row.businessHoursPauseTime
  /\ scheduled_due' = row.scheduled_due

\* campaignsService.pause: update({ status: 'paused' }).eq('id', id)
pause_Toggle(row) ==
  [row EXCEPT !.status = IF @ = "paused" THEN "active" ELSE "paused"]
pause(row) == [row EXCEPT !.status = "paused"]

\* campaignsService.resume: update({ status: 'active' }).eq('id', id)
resume(row) == [row EXCEPT !.status = "active"]

\* the operator pauses the campaign
Pause ==
  /\ commands < MaxCommands
  /\ commands' = commands + 1
  /\ UpdateCampaignRow(pause(CampaignRow))
  /\ IF campaignStatus \in RunningStatuses
       THEN pauseInEffect' = TRUE /\ sentSincePause' = 0 /\ claimsAfterSent' = 0
       ELSE UNCHANGED <<pauseInEffect, sentSincePause, claimsAfterSent>>
  /\ UNCHANGED <<msg, workerVars, calc,
                 createVars, sendCalls, locksTaken, lockWins,
                 retryIssued, scanTookUndue>>

\* the operator resumes the campaign
Resume ==
  /\ commands < MaxCommands
  /\ commands' = commands + 1
  /\ UpdateCampaignRow(resume(CampaignRow))
  /\ pauseInEffect' = FALSE
  /\ sentSincePause' = 0
  /\ claimsAfterSent' = 0
  /\ UNCHANGED <<msg, workerVars, calc,
                 createVars, sendCalls, locksTaken, lockWins,
                 retryIssued, scanTookUndue>>

\* cancel command: status = canceled (campaignsService has no such method;
\* the dispatcher only reads the status, l.320-323)
Cancel ==
  /\ commands < MaxCommands
  /\ commands' = commands + 1
  /\ campaignStatus' = "canceled"
  /\ UNCHANGED <<started_at, finished_at, sent_messages,
                 businessHoursStrategy, businessHoursPauseTime,
                 scheduled_due, msg, workerVars, calc, createVars, historyVars>>

\* campaignsService.retryMessage: update of the row, by id
RetryMessage_KeepsStatus(m) ==
  /\ commands < MaxCommands
  /\ commands' = commands + 1
  /\ msg' = [msg EXCEPT ![m].sent_at = Null, ![m].error_message = Null]
  /\ retryIssued' = TRUE
  /\ lockWins' = [lockWins EXCEPT ![m] = 0]
  /\ UNCHANGED <<campaignStatus, started_at, finished_at, sent_messages,
                 businessHoursStrategy, businessHoursPauseTime,
                 scheduled_due, workerVars, calc,
                 createVars, sendCalls, locksTaken,
                 scanTookUndue, pauseInEffect, sentSincePause,
                 claimsAfterSent>>
RetryMessage(m) ==
  /\ commands < MaxCommands
  /\ commands' = commands + 1
  /\ msg' = [msg EXCEPT ![m] =
       [status |-> "aguardando", sent_at |-> Null, error_message |-> Null]]
  /\ retryIssued' = TRUE
  /\ lockWins' = [lockWins EXCEPT ![m] = 0]
  /\ UNCHANGED <<campaignStatus, started_at, finished_at, sent_messages,
                 businessHoursStrategy, businessHoursPauseTime,
                 scheduled_due, workerVars, calc,
                 createVars, sendCalls, locksTaken,
                 scanTookUndue, pauseInEffect, sentSincePause,
                 claimsAfterSent>>

\* the clock reaches the campaign's scheduled_at
ScheduledTimeArrives ==
  /\ ~scheduled_due
  /\ scheduled_due' = TRUE
  /\ UNCHANGED <<campaignStatus, started_at, finished_at, sent_messages,
                 businessHoursStrategy, businessHoursPauseTime, msg,
                 workerVars, commands, calc, createVars, historyVars>>

\* ---- create command (part_001 l.64-95) -----------------------------------

\* part_001 l.75
chunkSize == 100

\* the contact ids handed to create; the row of contactIds[k] is message k
ContactIdLists == {[k \in 1..n |-> k] : n \in 0..NumMessages}

\* Array.slice(start, end)
slice(array, start, end) ==
  {k \in DOMAIN array : k > start /\ k <= end}

\* no campaign row yet; the config and scheduled_at (now, or a date already
\* reached) of the campaign to be created are fixed
InitCreate ==
  /\ campaignStatus = Null
  /\ started_at = 0
  /\ finished_at = Null
  /\ sent_messages = 0
  /\ businessHoursStrategy \in {"ignore", "pause"}
  /\ businessHoursPauseTime \in
       IF businessHoursStrategy = "pause" THEN {Null, NotText} ELSE {Null}
  /\ scheduled_due = TRUE
  /\ msg = [m \in {} |-> 0]
  /\ total_messages = 0
  /\ create \in {[phase |-> "called", contactIds |-> contactIds, i |-> 0] :
                   contactIds \in ContactIdLists}
  /\ reply = [w \in Workers |-> NoReply]
  /\ scanTookUndue = FALSE
  /\ pc = [w \in Workers |-> "idle"]
  /\ campaign = [w \in Workers |-> NoCampaign]
  /\ messageToLock = [w \in Workers |-> 0]
  /\ lockedMessage = [w \in Workers |-> 0]
  /\ response = [w \in Workers |-> NoResponse]
  /\ realSentCount = [w \in Workers |-> 0]
  /\ invocations = 0
  /\ commands = 0
  /\ sendCalls = [m \in Messages |-> 0]
  /\ locksTaken = [m \in Messages |-> 0]
  /\ lockWins = [m \in Messages |-> 0]
  /\ retryIssued = FALSE
  /\ pauseInEffect = FALSE
  /\ sentSincePause = 0
  /\ claimsAfterSent = 0
  /\ calc = NoCalc

\* part_001 l.65-73: insert of the campaign row, with the status and the
\* total_messages = contactIds.length the caller hands over (part_008
\* l.250-252); return at once without contacts
CreateInsertCampaign ==
  /\ create.phase = "called"
  /\ \E status \in {"scheduled", "active"}, campaignError \in BOOLEAN :
       IF campaignError
         THEN /\ create' = [create EXCEPT !.phase = "thrown"]
              /\ UNCHANGED <<campaignStatus, total_messages>>
         ELSE /\ campaignStatus' = status
              /\ total_messages' = Len(create.contactIds)
              /\ create' = [create EXCEPT !.phase =
                   IF Len(create.contactIds) = 0 THEN "returned"
                                                 ELSE "inserting"]
  /\ UNCHANGED <<started_at, finished_at, sent_messages,
                 businessHoursStrategy, businessHoursPauseTime,
                 scheduled_due, msg, workerVars, commands, calc, historyVars>>

\* part_001 l.82-92: insert of one chunk of message rows
CreateInsertChunk ==
  /\ create.phase = "inserting"
  /\ \E messagesError \in BOOLEAN :
       IF messagesError
         THEN /\ create' = [create EXCEPT !.phase = "thrown"]
              /\ UNCHANGED msg
         ELSE LET chunk == slice(create.contactIds, create.i,
                                 create.i + chunkSize)
              IN  /\ msg' = [m \in DOMAIN msg \cup chunk |->
                       IF m \in chunk
                         THEN [status |-> "aguardando", sent_at |-> Null,
                               error_message |-> Null]
                         ELSE msg[m]]
                  /\ create' = [create EXCEPT
                       !.i = create.i + chunkSize,
                       !.phase =
                         IF create.i + chunkSize < Len(create.contactIds)
                           THEN "inserting" ELSE "returned"]
  /\ UNCHANGED <<campaignStatus, started_at, finished_at, sent_messages,
                 businessHoursStrategy, businessHoursPauseTime,
                 scheduled_due, total_messages, workerVars, commands, calc,
                 historyVars>>

\* a create command and dispatcher invocations
NextCreate ==
  \/ CreateInsertCampaign
  \/ CreateInsertChunk
  \/ \E w \in Workers : DispatcherStep(w)

SpecCreate == InitCreate /\ [][NextCreate]_vars

\* ---- periodic trigger ------------------------------------------------------

\* l.90-133: an invocation by the periodic trigger, which comes again and
\* again; these invocations are not counted
Trigger(w) ==
  /\ pc[w] = "idle"
  /\ \E campaign_id \in BOOLEAN, campaignsError \in BOOLEAN :
       IF campaignsError
         THEN /\ reply' = [reply EXCEPT ![w] = ErrorResponse]
              /\ pc' = [pc EXCEPT ![w] = "respond"]
              /\ UNCHANGED <<campaign, scanTookUndue>>
         ELSE IF EligibilityQuery(campaign_id)
           THEN /\ campaign' = [campaign EXCEPT ![w] =
                     [status |-> campaignStatus, started_at |-> started_at]]
                /\ pc' = [pc EXCEPT ![w] = "begin"]
                /\ scanTookUndue' =
                     (scanTookUndue \/ (~campaign_id /\ ~scheduled_due))
                /\ UNCHANGED reply
           ELSE /\ reply' = [reply EXCEPT ![w] = OkResponse(<< >>)]
                /\ pc' = [pc EXCEPT ![w] = "respond"]
                /\ UNCHANGED <<campaign, scanTookUndue>>
  /\ UNCHANGED <<storeVars, messageToLock, lockedMessage, response,
                 realSentCount, invocations, commands, calc, createVars,
                 sendCalls, locksTaken, lockWins, retryIssued, pauseInEffect,
                 sentSincePause, claimsAfterSent>>

\* the steps of an invocation after its start
DispatcherRun(w) ==
  \/ Begin(w)
  \/ Gate(w)
  \/ ActiveCheck(w)
  \/ FinalizeCount(w)
  \/ FinalizeUpdate(w)
  \/ BudgetExhausted(w)
  \/ RereadStatus(w)
  \/ PacingProceed(w)
  \/ PacingBreak(w)
  \/ SelectMessage(w)
  \/ Remaining(w)
  \/ LockMessage(w)
  \/ SendMessage(w)
  \/ CommitMessage(w)
  \/ IncrementCampaignSent(w)
  \/ UpdateExecutionTime(w)
  \/ Respond(w)

\* l.103-133: the eligibility query answers and returns the campaign
TriggerTakesCampaign(w) == Trigger(w) /\ pc'[w] = "begin"

\* l.216-237: the invocation finds the business-hours gate open
GatePassed(w) == Gate(w) /\ pc'[w] # "respond"

\* a campaign with a well-formed config, due and with all its rows
InitLive ==
  /\ Created(Messages, TRUE)
  /\ businessHoursPauseTime = Null
  /\ calc = NoCalc

NextLive ==
  \/ \E w \in Workers : Trigger(w)
  \/ \E w \in Workers : DispatcherRun(w)

\* The trigger comes again and again and every invocation runs on; the
\* store answers the eligibility query, the gate is open, the budget is not
\* used up at the top of the loop and the pacing delay has passed, each of
\* them again and again if asked again and again.
FairDispatch ==
  \A w \in Workers :
    /\ WF_vars(Trigger(w) \/ DispatcherRun(w))
    /\ SF_vars(TriggerTakesCampaign(w))
    /\ SF_vars(GatePassed(w))
    /\ SF_vars(RereadStatus(w))
    /\ SF_vars(PacingProceed(w))

SpecLive == InitLive /\ [][NextLive]_vars /\ FairDispatch

\* l.441-456: the request to the send endpoint carries no timeout; the
\* endpoint never answers and the runtime ends the invocation, or the
\* invocation is ended before its commit.  Nothing is written.
InvocationStops(w) ==
  /\ pc[w] \in {"send", "commit"}
  /\ pc' = [pc EXCEPT ![w] = "idle"]
  /\ campaign' = [campaign EXCEPT ![w] = NoCampaign]
  /\ lockedMessage' = [lockedMessage EXCEPT ![w] = 0]
  /\ response' = [response EXCEPT ![w] = NoResponse]
  /\ UNCHANGED <<storeVars, messageToLock, reply, realSentCount, invocations,
                 commands, calc, createVars, historyVars>>

NextStall ==
  \/ \E w \in Workers : Trigger(w)
  \/ \E w \in Workers : DispatcherRun(w)
  \/ \E w \in Workers : InvocationStops(w)

\* the business hours play no part here
InitStall == InitLive /\ businessHoursStrategy = "ignore"

SpecStall == InitStall /\ [][NextStall]_vars /\ FairDispatch

\* dispatcher invocations alone
NextDispatch == \E w \in Workers : DispatcherStep(w)

\* dispatcher invocations and the commands of campaignsService
NextService ==
  \/ \E w \in Workers : DispatcherStep(w)
  \/ Pause
  \/ Resume
  \/ \E m \in Messages : RetryMessage(m)

\* dispatcher invocations and all operator commands
Next ==
  \/ \E w \in Workers : DispatcherStep(w)
  \/ Pause
  \/ Resume
  \/ Cancel
  \/ \E m \in Messages : RetryMessage(m)

\* dispatcher invocations on a campaign scheduled for later
InitSchedule == Created(Messages, FALSE) /\ calc = NoCalc
NextSchedule ==
  \/ \E w \in Workers : DispatcherStep(w)
  \/ ScheduledTimeArrives

\* dispatcher invocations on a campaign created without recipients: the
\* steps up to the completion check and the finalization
InitEmpty == Created({}, TRUE) /\ calc = NoCalc
NextEmpty ==
  \E w \in Workers :
    \/ Invoke(w)
    \/ Begin(w)
    \/ Gate(w)
    \/ ActiveCheck(w)
    \/ FinalizeCount(w)
    \/ FinalizeUpdate(w)
    \/ Respond(w)

SpecDispatch == Init /\ [][NextDispatch]_vars
SpecEmpty == InitEmpty /\ [][NextEmpty]_vars
SpecSchedule == InitSchedule /\ [][NextSchedule]_vars
SpecService == Init /\ [][NextService]_vars
Spec == Init /\ [][Next]_vars

\* ---- schedule calculator (lib/campaign-utils) -----------------------------

\* instants are milliseconds of local time counted from the midnight that
\* begins day 0; daylight-saving shifts are not modelled
Second == 1000
Minute == 60 * Second
Hour == 60 * Minute
Day == 24 * Hour

\* a time of day "HH:MM" after split(':').map(Number) is <<h, m>>; a missing
\* or empty text, and a missing number, is the empty tuple
Missing == << >>

\* Date.getHours, Date.getMinutes
getHours(date) == (date % Day) \div Hour
getMinutes(date) == (date % Hour) \div Minute

\* date-fns: set(date, {hours, minutes, seconds: 0, milliseconds: 0})
setTime(date, time) ==
  (date - (date % Day)) + time[1] * Hour + time[2] * Minute

\* date-fns: addDays, addSeconds (the amount is given here in milliseconds,
\* so that half seconds stay whole numbers), isBefore, isAfter, isSameDay
addDays(date, amount) == date + amount * Day
addSeconds(date, amountMs) == date + amountMs
isBefore(date, dateToCompare) == date < dateToCompare
isAfter(date, dateToCompare) == date > dateToCompare
isSameDay(dateLeft, dateRight) ==
  dateLeft - (dateLeft % Day) = dateRight - (dateRight % Day)

\* part_010 l.49-66: business-hours setup
DefaultPauseTime == <<DefaultPauseHour, 0>>
DefaultResumeTime == <<DefaultResumeHour, 0>>
BusinessTimesGiven(config) ==
  /\ config.businessHoursStrategy = "pause"
  /\ config.businessHoursPauseTime # Missing
  /\ config.businessHoursResumeTime # Missing
pauseT(config) ==
  LET time == IF BusinessTimesGiven(config)
                THEN config.businessHoursPauseTime ELSE DefaultPauseTime
  IN  time[1] * 60 + time[2]
resumeTimeOf(config) ==
  IF BusinessTimesGiven(config)
    THEN config.businessHoursResumeTime ELSE DefaultResumeTime
resumeT(config) == resumeTimeOf(config)[1] * 60 + resumeTimeOf(config)[2]

\* part_010 l.68-87: automatic pause setup
AutomaticPauseGiven(config) ==
  /\ config.automaticPause
  /\ config.pauseTime # Missing
  /\ config.resumeDate # Missing
  /\ config.resumeTime # Missing
autoResumeDateTime(config) ==
  setTime(addDays(0, config.resumeDate[1]), config.resumeTime)

\* part_010 l.89-93
avgInterval(config) == (config.minInterval + config.maxInterval) * (Second \div 2)
avgBatchPause(config) ==
  IF config.useBatching /\ config.batchPauseMin # 0 /\ config.batchPauseMax # 0
    THEN (config.batchPauseMin + config.batchPauseMax) * (Second \div 2)
    ELSE 0

\* part_010 l.100-105: the batch pause is added before message i
BatchPauseApplies_NoFirstGuard(config, i) ==
  config.useBatching /\ config.batchSize # 0 /\ i % config.batchSize = 0
BatchPauseApplies(config, i) ==
  /\ config.useBatching
  /\ config.batchSize # 0
  /\ i > 0
  /\ i % config.batchSize = 0

\* part_010 l.111-123 and l.156-165: the automatic pause holds at currentTime
AutomaticPauseHolds(config, currentTime) ==
  LET currentH == getHours(currentTime)
      currentM == getMinutes(currentTime)
      isPauseTimeReached ==
        \/ currentH > config.pauseTime[1]
        \/ currentH = config.pauseTime[1] /\ currentM >= config.pauseTime[2]
      isAfterStartDay ==
        /\ ~isSameDay(currentTime, config.startTime)
        /\ isAfter(currentTime, config.startTime)
  IN  isPauseTimeReached \/ isAfterStartDay

\* part_010 l.109-129: jump to the resume instant
AutomaticPauseJump(config, currentTime) ==
  IF /\ AutomaticPauseGiven(config)
     /\ isBefore(currentTime, autoResumeDateTime(config))
     /\ AutomaticPauseHolds(config, currentTime)
    THEN autoResumeDateTime(config)
    ELSE currentTime

\* part_010 l.133-151: roll forward to the resume time
RollForward_SameDay(config, currentTime) ==
  setTime(currentTime, resumeTimeOf(config))
RollForward(config, currentTime) ==
  LET t == getHours(currentTime) * 60 + getMinutes(currentTime)
      isAfterPause == t >= pauseT(config)
  IN  setTime(IF isAfterPause THEN addDays(currentTime, 1) ELSE currentTime,
              resumeTimeOf(config))

\* part_010 l.131-170: business hours, and inside the adjustment the
\* automatic pause once more
BusinessHoursAdjust(config, currentTime) ==
  LET t == getHours(currentTime) * 60 + getMinutes(currentTime)
      isAfterPause == t >= pauseT(config)
      isBeforeResume == t < resumeT(config)
  IN  IF config.businessHoursStrategy = "pause"
           /\ (isAfterPause \/ isBeforeResume)
        THEN AutomaticPauseJump(config, RollForward(config, currentTime))
        ELSE currentTime

\* part_010 l.95-176: the loop from message i on, currentTime being the
\* instant of message i - 1
RECURSIVE ScheduleFrom(_, _, _, _)
ScheduleFrom(config, totalMessages, i, currentTime) ==
  IF i >= totalMessages
    THEN << >>
    ELSE
      LET spaced == IF i > 0
                      THEN addSeconds(currentTime, avgInterval(config))
                      ELSE currentTime
          batched == IF BatchPauseApplies(config, i)
                       THEN addSeconds(spaced, avgBatchPause(config))
                       ELSE spaced
          sendTime == BusinessHoursAdjust(config,
                        AutomaticPauseJump(config, batched))
      IN  <<sendTime>> \o ScheduleFrom(config, totalMessages, i + 1, sendTime)

\* part_010 l.42-179: the send times, by contactIndex + 1
calculateCampaignSchedule(config, totalMessages) ==
  ScheduleFrom(config, totalMessages, 0, config.startTime)

\* inputs of the calculator: interval pairs, batching, business hours,
\* automatic pause and start instants
MaxTotalMessages == 4
IntervalSamples == {<<1, 1>>, <<1, 2>>, <<30, 30>>}
BatchSamples ==
  {[useBatching |-> FALSE, batchSize |-> 0, batchPauseMin |-> 0,
    batchPauseMax |-> 0],
   [useBatching |-> TRUE, batchSize |-> 2, batchPauseMin |-> 10,
    batchPauseMax |-> 10],
   [useBatching |-> TRUE, batchSize |-> 3, batchPauseMin |-> 60,
    batchPauseMax |-> 120]}
BusinessHoursSamples ==
  {[businessHoursStrategy |-> "ignore", businessHoursPauseTime |-> Missing,
    businessHoursResumeTime |-> Missing],
   [businessHoursStrategy |-> "pause", businessHoursPauseTime |-> Missing,
    businessHoursResumeTime |-> Missing],
   [businessHoursStrategy |-> "pause", businessHoursPauseTime |-> <<18, 0>>,
    businessHoursResumeTime |-> <<8, 0>>],
   [businessHoursStrategy |-> "pause", businessHoursPauseTime |-> <<17, 30>>,
    businessHoursResumeTime |-> <<8, 30>>],
   [businessHoursStrategy |-> "pause", businessHoursPauseTime |-> <<8, 0>>,
    businessHoursResumeTime |-> <<18, 0>>]}
AutomaticPauseSamples ==
  {[automaticPause |-> FALSE, pauseTime |-> Missing, resumeDate |-> Missing,
    resumeTime |-> Missing],
   [automaticPause |-> TRUE, pauseTime |-> <<23, 0>>, resumeDate |-> <<2>>,
    resumeTime |-> <<7, 0>>],
   [automaticPause |-> TRUE, pauseTime |-> <<12, 0>>, resumeDate |-> <<1>>,
    resumeTime |-> <<9, 0>>]}
StartSamples ==
  {7 * Hour + 30 * Minute, 10 * Hour, 17 * Hour + 59 * Minute + 59 * Second}

ScheduleConfigs ==
  {[minInterval |-> interval[1], maxInterval |-> interval[2],
    startTime |-> start] @@ batch @@ hours @@ auto :
     interval \in IntervalSamples, batch \in BatchSamples,
     hours \in BusinessHoursSamples, auto \in AutomaticPauseSamples,
     start \in StartSamples}

\* the service is at rest while the calculator is looked at
ServiceAtRest ==
  /\ Created(Messages, TRUE)
  /\ campaignStatus = "scheduled"
  /\ businessHoursStrategy = "ignore"

InitCalc ==
  /\ ServiceAtRest
  /\ calc \in {[phase |-> "input", config |-> config, totalMessages |-> n] :
                 config \in ScheduleConfigs, n \in 0..MaxTotalMessages}

\* a call of calculateCampaignSchedule
Calculate ==
  /\ calc.phase = "input"
  /\ calc' = [phase |-> "schedule", config |-> calc.config,
              totalMessages |-> calc.totalMessages,
              schedule |-> calculateCampaignSchedule(calc.config,
                                                     calc.totalMessages)]
  /\ UNCHANGED <<storeVars, workerVars, commands, historyVars, createVars>>

SpecCalc == InitCalc /\ [][Calculate]_vars

\* ---- one dispatcher invocation on the clock ------------------------------

\* One invocation alone on a campaign whose stored config holds the fields
\* of the calculator's config, with a send endpoint that answers at once
\* with success; store calls take no time, so the clock moves only in the
\* sleep of the pacing (l.394).  The clock is the one of the calculator and
\* reads BRT.  Configurations with an automatic pause are left out.

MAX_EXECUTION_TIME == 55000
DefaultMinInterval == 30
DefaultMaxInterval == 40
DefaultBatchPauseMin == 60
DefaultBatchPauseMax == 120

\* l.346-352: Math.floor(Math.random() * (max - min + 1) + min) lies between
\* min and max; the two ends are sampled
IntervalDelays(config) ==
  {(IF config.minInterval # 0 THEN config.minInterval
                              ELSE DefaultMinInterval) * 1000,
   (IF config.maxInterval # 0 THEN config.maxInterval
                              ELSE DefaultMaxInterval) * 1000}

\* l.362-366: the same for the batch pause
BatchPauses(config) ==
  {(IF config.batchPauseMin # 0 THEN config.batchPauseMin
                                ELSE DefaultBatchPauseMin) * 1000,
   (IF config.batchPauseMax # 0 THEN config.batchPauseMax
                                ELSE DefaultBatchPauseMax) * 1000}

\* l.344-374: the delay required since the last sent_at
RequiredDelay_NoFirstOverride(config, sentMessagesCount, hasMessagesSentReally, intervalDelay, batchPause) ==
  intervalDelay
    + (IF /\ config.useBatching
          /\ config.batchSize # 0
          /\ sentMessagesCount > 0
          /\ sentMessagesCount % config.batchSize = 0
         THEN batchPause ELSE 0)
RequiredDelay(config, sentMessagesCount, hasMessagesSentReally, intervalDelay, batchPause) ==
  IF ~hasMessagesSentReally
    THEN 0
    ELSE intervalDelay
           + (IF /\ config.useBatching
                 /\ config.batchSize # 0
                 /\ sentMessagesCount > 0
                 /\ sentMessagesCount % config.batchSize = 0
                THEN batchPause ELSE 0)

\* l.164-167, l.216-231: the business-hours gate of the stored config, on
\* the hour of day alone
GateClosed(config, now) ==
  LET brtHours == getHours(now)
      pauseHour == IF config.businessHoursPauseTime # Missing
                     THEN config.businessHoursPauseTime[1]
                     ELSE DefaultPauseHour
      resumeHour == IF config.businessHoursResumeTime # Missing
                      THEN config.businessHoursResumeTime[1]
                      ELSE DefaultResumeHour
  IN  /\ config.businessHoursStrategy = "pause"
      /\ ~(brtHours >= resumeHour /\ brtHours < pauseHour)

ChainPhases ==
  {"created", "loop", "select", "finished", "continued", "paused_temporarily"}

InitChain ==
  /\ ServiceAtRest
  /\ calc \in {[phase |-> "created", config |-> config, totalMessages |-> n,
                now |-> config.startTime, startTime |-> config.startTime,
                sent_messages |-> 0, requiredDelay |-> 0, sentAt |-> << >>] :
                 config \in {c \in ScheduleConfigs : ~c.automaticPause},
                 n \in 0..MaxTotalMessages}

\* l.90-303: the invocation starts at the campaign's start instant; pause
\* gate, then the completion check
ChainEnter ==
  /\ calc.phase = "created"
  /\ calc' = [calc EXCEPT !.phase =
       IF GateClosed(calc.config, calc.now) THEN "paused_temporarily"
       ELSE IF calc.totalMessages = 0 THEN "finished" ELSE "loop"]
  /\ UNCHANGED <<storeVars, workerVars, commands, historyVars, createVars>>

\* l.309-396: head of the send loop, last sent_at, delay and wait
ChainPace ==
  /\ calc.phase = "loop"
  /\ \E intervalDelay \in IntervalDelays(calc.config),
        batchPause \in BatchPauses(calc.config) :
       LET hasMessagesSentReally == calc.sentAt # << >>
           lastSentAt == IF hasMessagesSentReally
                           THEN calc.sentAt[Len(calc.sentAt)] ELSE 0
           requiredDelay ==
             RequiredDelay(calc.config, calc.sent_messages,
                           hasMessagesSentReally, intervalDelay, batchPause)
           timeSinceLast == calc.now - lastSentAt
           waitTime == requiredDelay - timeSinceLast
       IN  IF ~(calc.now - calc.startTime < MAX_EXECUTION_TIME)
             THEN calc' = [calc EXCEPT !.phase = "continued"]
             ELSE IF timeSinceLast < requiredDelay
               THEN IF calc.now + waitTime > calc.startTime + MAX_EXECUTION_TIME
                 THEN calc' = [calc EXCEPT !.phase = "continued",
                                           !.requiredDelay = requiredDelay]
                 ELSE calc' = [calc EXCEPT !.phase = "select",
                                           !.requiredDelay = requiredDelay,
                                           !.now = calc.now + waitTime]
               ELSE calc' = [calc EXCEPT !.phase = "select",
                                         !.requiredDelay = requiredDelay]
  /\ UNCHANGED <<storeVars, workerVars, commands, historyVars, createVars>>

\* l.398-477: select, lock, send, commit with sent_at = now, and the
\* counters
ChainSend ==
  /\ calc.phase = "select"
  /\ Len(calc.sentAt) < calc.totalMessages
  /\ calc' = [calc EXCEPT !.phase = "loop",
                          !.sentAt = Append(@, calc.now),
                          !.sent_messages = @ + 1]
  /\ UNCHANGED <<storeVars, workerVars, commands, historyVars, createVars>>

\* l.407-420: nothing left to select; finalizeCampaign
ChainFinalize ==
  /\ calc.phase = "select"
  /\ Len(calc.sentAt) = calc.totalMessages
  /\ calc' = [calc EXCEPT !.phase = "finished"]
  /\ UNCHANGED <<storeVars, workerVars, commands, historyVars, createVars>>

NextChain ==
  \/ ChainEnter
  \/ ChainPace
  \/ ChainSend
  \/ ChainFinalize

SpecChain == InitChain /\ [][NextChain]_vars

\* ---- admission planner (part_010 l.181-329) -------------------------------

\* part_010 l.181-191
estimateCampaignEndTime(config, totalMessages) ==
  IF totalMessages = 0
    THEN config.startTime
    ELSE LET schedule == calculateCampaignSchedule(config, totalMessages)
         IN  IF Len(schedule) = 0 THEN config.startTime
                                  ELSE schedule[Len(schedule)]

\* a ?? b on values that are Missing or a one-element tuple, and obj?.key on
\* an object that is Missing or a one-element tuple holding a record
Nullish(a, b) == IF a # Missing THEN a ELSE b
Member(obj, key) == IF obj # Missing THEN obj[1][key] ELSE Missing
ValueOr(a, defaultVal) == IF a # Missing THEN a[1] ELSE defaultVal

\* part_010 l.200-202
getVal(dbConfig, snake, camel) == Nullish(dbConfig[camel], dbConfig[snake])

\* part_010 l.193-277.  A stored config is a record of the keys the function
\* reads, each Missing or a one-element tuple; useBatching is a boolean and
\* automaticPause an object.  Times of day are read as by split(':'), the
\* start string and the resume date as the instant and the day they denote.
mapDbConfigToScheduleConfig(dbConfig, startTime) ==
  LET automatic == getVal(dbConfig, "automatic_pause", "automaticPause")
      autoPauseEnabled ==
        Nullish(Member(automatic, "enabled"),
          Nullish(Member(dbConfig.automatic_pause, "enabled"),
                  Member(dbConfig.automaticPause, "enabled")))
      autoPauseAt ==
        Nullish(Member(automatic, "pause_at"),
          Nullish(Member(automatic, "pauseTime"),
            Nullish(Member(dbConfig.automatic_pause, "pause_at"),
                    Member(dbConfig.automaticPause, "pauseTime"))))
      autoResumeDate ==
        Nullish(Member(automatic, "resume_date"),
          Nullish(Member(automatic, "resumeDate"),
            Nullish(Member(dbConfig.automatic_pause, "resume_date"),
                    Member(dbConfig.automaticPause, "resumeDate"))))
      autoResumeTime ==
        Nullish(Member(automatic, "resume_time"),
          Nullish(Member(automatic, "resumeTime"),
            Nullish(Member(dbConfig.automatic_pause, "resume_time"),
                    Member(dbConfig.automaticPause, "resumeTime"))))
      isBatchEnabled ==
        IF dbConfig.useBatching # Missing
          THEN dbConfig.useBatching
          ELSE Member(dbConfig.batch_config, "enabled")
      batchSize ==
        Nullish(dbConfig.batchSize, Member(dbConfig.batch_config, "size"))
      batchPauseMin ==
        Nullish(dbConfig.batchPauseMin,
                Member(dbConfig.batch_config, "pause_min"))
      batchPauseMax ==
        Nullish(dbConfig.batchPauseMax,
                Member(dbConfig.batch_config, "pause_max"))
      businessStrategy ==
        Nullish(dbConfig.businessHoursStrategy,
                Member(dbConfig.business_hours, "strategy"))
      businessPauseAt ==
        Nullish(dbConfig.businessHoursPauseTime,
                Member(dbConfig.business_hours, "pause_at"))
      businessResumeAt ==
        Nullish(dbConfig.businessHoursResumeTime,
                Member(dbConfig.business_hours, "resume_at"))
  IN  [minInterval |->
         ValueOr(getVal(dbConfig, "min_interval", "minInterval"), 30),
       maxInterval |->
         ValueOr(getVal(dbConfig, "max_interval", "maxInterval"), 60),
       useBatching |-> ValueOr(isBatchEnabled, FALSE),
       batchSize |-> ValueOr(batchSize, 0),
       batchPauseMin |-> ValueOr(batchPauseMin, 0),
       batchPauseMax |-> ValueOr(batchPauseMax, 0),
       businessHoursStrategy |-> ValueOr(businessStrategy, "ignore"),
       businessHoursPauseTime |-> ValueOr(businessPauseAt, DefaultPauseTime),
       businessHoursResumeTime |->
         ValueOr(businessResumeAt, DefaultResumeTime),
       automaticPause |-> ValueOr(autoPauseEnabled, FALSE),
       pauseTime |-> ValueOr(autoPauseAt, Missing),
       resumeDate |-> autoResumeDate,
       resumeTime |-> ValueOr(autoResumeTime, Missing),
       startTime |-> startTime]

\* part_010 l.290
BUFFER_MINUTES == 60

\* date-fns: addMinutes
addMinutes(date, amount) == date + amount * Minute

\* part_010 l.296: started_at || scheduled_at of an existing campaign
campaignStartStr(existing) ==
  IF existing.started_at # Missing THEN existing.started_at
                                   ELSE existing.scheduled_at

\* part_010 l.299-307: the config and the estimated end of an existing
\* existing with a known start
campaignConfigOf(existing) ==
  mapDbConfigToScheduleConfig(existing.config, campaignStartStr(existing)[1])
campaignEndOf(existing) ==
  estimateCampaignEndTime(campaignConfigOf(existing),
                          ValueOr(existing.total_messages, 0))

\* part_010 l.309-314
hasOverlap_NoBuffer(newStart, newEnd, campaignStart, campaignEnd) ==
  isAfter(newEnd, campaignStart) /\ isBefore(newStart, campaignEnd)
hasOverlap(newStart, newEnd, campaignStart, campaignEnd) ==
  LET existingStartBuffer == addMinutes(campaignStart, 0 - BUFFER_MINUTES)
      existingEndBuffer == addMinutes(campaignEnd, BUFFER_MINUTES)
  IN  /\ isAfter(newEnd, existingStartBuffer)
      /\ isBefore(newStart, existingEndBuffer)

\* part_010 l.295-328: the loop over the existing campaigns from index i on
RECURSIVE ConflictFrom(_, _, _, _)
ConflictFrom(newStart, newEnd, existingCampaigns, i) ==
  IF i > Len(existingCampaigns)
    THEN [hasConflict |-> FALSE]
    ELSE
      LET existing == existingCampaigns[i]
      IN  IF campaignStartStr(existing) = Missing
            THEN ConflictFrom(newStart, newEnd, existingCampaigns, i + 1)
            ELSE IF hasOverlap(newStart, newEnd,
                               campaignConfigOf(existing).startTime,
                               campaignEndOf(existing))
              THEN [hasConflict |-> TRUE,
                    conflictingCampaignId |-> existing.id,
                    conflictingCampaignName |-> existing.name,
                    suggestedTime |-> addMinutes(campaignEndOf(existing),
                                                 BUFFER_MINUTES + 5)]
              ELSE ConflictFrom(newStart, newEnd, existingCampaigns, i + 1)

\* part_010 l.278-329
checkScheduleConflict(newConfig, totalMessages, existingCampaigns) ==
  ConflictFrom(newConfig.startTime,
               estimateCampaignEndTime(newConfig, totalMessages),
               existingCampaigns, 1)

\* inputs of the planner: candidates, stored configs in the spelling written
\* at creation (part_008 l.229-245), in the spelling of ScheduleConfig and
\* without any key, and existing campaigns
MaxExisting == 2
NoDbConfig ==
  [minInterval |-> Missing, min_interval |-> Missing,
   maxInterval |-> Missing, max_interval |-> Missing,
   useBatching |-> Missing, batchSize |-> Missing,
   batchPauseMin |-> Missing, batchPauseMax |-> Missing,
   batch_config |-> Missing,
   businessHoursStrategy |-> Missing, businessHoursPauseTime |-> Missing,
   businessHoursResumeTime |-> Missing, business_hours |-> Missing,
   automaticPause |-> Missing, automatic_pause |-> Missing]
StoredConfig(interval, batch_config, business_hours) ==
  [NoDbConfig EXCEPT !.min_interval = <<interval>>,
                     !.max_interval = <<interval>>,
                     !.batch_config = <<batch_config>>,
                     !.business_hours = <<business_hours>>]
BatchOff ==
  [enabled |-> <<FALSE>>, size |-> Missing, pause_min |-> Missing,
   pause_max |-> Missing]
BatchOfTwo ==
  [enabled |-> <<TRUE>>, size |-> <<2>>, pause_min |-> <<60>>,
   pause_max |-> <<120>>]
HoursIgnored ==
  [strategy |-> <<"ignore">>, pause_at |-> <<(<<18, 0>>)>>,
   resume_at |-> <<(<<8, 0>>)>>]
HoursPaused ==
  [strategy |-> <<"pause">>, pause_at |-> <<(<<18, 0>>)>>,
   resume_at |-> <<(<<8, 0>>)>>]
CamelConfig ==
  [NoDbConfig EXCEPT !.minInterval = <<600>>, !.maxInterval = <<600>>,
                     !.min_interval = <<5>>,
                     !.useBatching = <<FALSE>>,
                     !.batch_config = <<BatchOfTwo>>,
                     !.businessHoursStrategy = <<"ignore">>,
                     !.business_hours = <<HoursPaused>>]
ExistingSamples ==
  {[id |-> "id_a", name |-> "A", started_at |-> Missing,
    scheduled_at |-> <<10 * Hour>>, total_messages |-> <<4>>,
    config |-> StoredConfig(1200, BatchOff, HoursIgnored)],
   [id |-> "id_b", name |-> "B", started_at |-> <<12 * Hour + 30 * Minute>>,
    scheduled_at |-> <<9 * Hour>>, total_messages |-> <<2>>,
    config |-> CamelConfig],
   [id |-> "id_c", name |-> "C", started_at |-> Missing,
    scheduled_at |-> Missing, total_messages |-> <<4>>,
    config |-> StoredConfig(1200, BatchOff, HoursIgnored)],
   [id |-> "id_d", name |-> "D", started_at |-> Missing,
    scheduled_at |-> <<14 * Hour>>, total_messages |-> Missing,
    config |-> NoDbConfig],
   [id |-> "id_e", name |-> "E", started_at |-> <<17 * Hour + 30 * Minute>>,
    scheduled_at |-> Missing, total_messages |-> <<3>>,
    config |-> StoredConfig(1200, BatchOfTwo, HoursPaused)]}
ExistingLists ==
  UNION {[1..k -> ExistingSamples] : k \in 0..MaxExisting}
CandidateConfigs ==
  {c \in ScheduleConfigs :
     /\ ~c.automaticPause /\ ~c.useBatching
     /\ c.businessHoursPauseTime \in {Missing, <<18, 0>>}}
CandidateStarts ==
  {8 * Hour, 10 * Hour + 30 * Minute, 12 * Hour + 5 * Minute, 13 * Hour}
CandidateIntervals == {600, 1200}
Candidates ==
  {[c EXCEPT !.startTime = start, !.minInterval = interval,
             !.maxInterval = interval] :
     c \in CandidateConfigs, start \in CandidateStarts,
     interval \in CandidateIntervals}

InitConflict ==
  /\ ServiceAtRest
  /\ calc \in {[phase |-> "candidate", config |-> config, totalMessages |-> n,
                existingCampaigns |-> existingCampaigns] :
                 config \in Candidates, n \in 0..MaxTotalMessages,
                 existingCampaigns \in ExistingLists}

\* a call of checkScheduleConflict for the candidate
CheckConflict ==
  /\ calc.phase = "candidate"
  /\ calc' = [phase |-> "checked", config |-> calc.config,
              totalMessages |-> calc.totalMessages,
              existingCampaigns |-> calc.existingCampaigns,
              result |-> checkScheduleConflict(calc.config,
                           calc.totalMessages, calc.existingCampaigns)]
  /\ UNCHANGED <<storeVars, workerVars, commands, historyVars, createVars>>

\* the candidate is moved to the suggested start and checked again against
\* the same existing campaigns
CheckSuggestion ==
  /\ calc.phase = "checked"
  /\ calc.result.hasConflict
  /\ LET moved == [calc.config EXCEPT !.startTime = calc.result.suggestedTime]
     IN  calc' = [phase |-> "moved", config |-> moved,
                  totalMessages |-> calc.totalMessages,
                  existingCampaigns |-> calc.existingCampaigns,
                  first |-> calc.result,
                  result |-> checkScheduleConflict(moved, calc.totalMessages,
                               calc.existingCampaigns)]
  /\ UNCHANGED <<storeVars, workerVars, commands, historyVars, createVars>>

NextConflict ==
  \/ CheckConflict
  \/ CheckSuggestion

SpecConflict == InitConflict /\ [][NextConflict]_vars

\* ---- pause gates of the dispatcher on the clock (l.160-237) --------------

\* Instants are here milliseconds of UTC counted from the UTC midnight that
\* begins day 0; the runtime's local time (Date.setHours) is UTC.

\* l.165-167: Brazil time, UTC-3
brtHoursOf(now) == (getHours(now) - 3 + 24) % 24

\* l.199-200: toISOString().split('T')[0], the UTC date as a day number
isoDate(date) == date \div Day

\* l.180-185: new Date(resume_date), then setHours(resumeH, resumeM, 0, 0)
resumeDateTimeOf(automaticPause) ==
  setTime(addDays(0, automaticPause.resume_date[1]),
          automaticPause.resume_time)

\* l.169-214: the automatic scheduled pause; start is started_at or
\* created_at of the campaign row
AutomaticPauseGate(automaticPause, now, start) ==
  /\ automaticPause.enabled
  /\ automaticPause.pause_at # Missing
  /\ automaticPause.resume_date # Missing
  /\ automaticPause.resume_time # Missing
  /\ now < resumeDateTimeOf(automaticPause)
  /\ LET nowMinutes == brtHoursOf(now) * 60 + getMinutes(now)
         pauseMinutes == automaticPause.pause_at[1] * 60
                           + automaticPause.pause_at[2]
         isAfterStartDay == isoDate(now) > isoDate(start)
         isPastPauseTime == nowMinutes >= pauseMinutes
     IN  isPastPauseTime \/ isAfterStartDay

\* l.216-231: the business-hours check, on parseInt of the hour part
BusinessHoursGate(config, brtHours) ==
  LET pauseHour == IF config.businessHoursPauseTime # Missing
                     THEN config.businessHoursPauseTime[1]
                     ELSE DefaultPauseHour
      resumeHour == IF config.businessHoursResumeTime # Missing
                      THEN config.businessHoursResumeTime[1]
                      ELSE DefaultResumeHour
      isBusinessHours == brtHours >= resumeHour /\ brtHours < pauseHour
  IN  config.businessHoursStrategy = "pause" /\ ~isBusinessHours

\* l.160-237: shouldPause and pauseReason
PauseCheck(config, now, start) ==
  IF AutomaticPauseGate(config.automaticPause, now, start)
    THEN [shouldPause |-> TRUE, pauseReason |-> "Automatic Pause"]
    ELSE IF BusinessHoursGate(config, brtHoursOf(now))
      THEN [shouldPause |-> TRUE, pauseReason |-> "Business Hours"]
      ELSE [shouldPause |-> FALSE, pauseReason |-> ""]

\* inputs: configs as parseConfig returns them, clock readings every half
\* hour of three days, start instants on day 0
GateBusinessSamples ==
  {[businessHoursStrategy |-> "ignore", businessHoursPauseTime |-> Missing,
    businessHoursResumeTime |-> Missing],
   [businessHoursStrategy |-> "pause", businessHoursPauseTime |-> Missing,
    businessHoursResumeTime |-> Missing],
   [businessHoursStrategy |-> "pause", businessHoursPauseTime |-> <<18, 0>>,
    businessHoursResumeTime |-> <<8, 0>>],
   [businessHoursStrategy |-> "pause", businessHoursPauseTime |-> <<17, 30>>,
    businessHoursResumeTime |-> <<8, 30>>]}
GateAutomaticSamples ==
  {[enabled |-> FALSE, pause_at |-> Missing, resume_date |-> Missing,
    resume_time |-> Missing],
   [enabled |-> TRUE, pause_at |-> Missing, resume_date |-> <<1>>,
    resume_time |-> <<7, 0>>],
   [enabled |-> TRUE, pause_at |-> <<23, 0>>, resume_date |-> <<1>>,
    resume_time |-> <<10, 0>>],
   [enabled |-> TRUE, pause_at |-> <<12, 0>>, resume_date |-> <<2>>,
    resume_time |-> <<9, 30>>]}
GateConfigs ==
  {business @@ [automaticPause |-> automatic] :
     business \in GateBusinessSamples, automatic \in GateAutomaticSamples}
GateClock == {d * Day + k * 30 * Minute : d \in 0..2, k \in 0..47}
GateStarts == {13 * Hour, 23 * Hour + 30 * Minute}

InitGate ==
  /\ ServiceAtRest
  /\ \E config \in GateConfigs, now \in GateClock :
       \E start \in {t \in GateStarts : t <= now} :
         calc = [phase |-> "entry", config |-> config, now |-> now,
                 start |-> start]

\* the pause check of an invocation that reads the clock as calc.now
EvaluateGates ==
  /\ calc.phase = "entry"
  /\ calc' = [phase |-> "gate", config |-> calc.config, now |-> calc.now,
              start |-> calc.start,
              check |-> PauseCheck(calc.config, calc.now, calc.start)]
  /\ UNCHANGED <<storeVars, workerVars, commands, historyVars, createVars>>

SpecGate == InitGate /\ [][EvaluateGates]_vars

\* ---- invocations one at a time on the clock (l.90-507) -------------------

\* One campaign in processing with business hours ignored; invocations follow
\* one another, none starts before the one before has ended.  The store
\* calls take no time, the pacing sleep and the call of the send endpoint
\* do.  calc holds the clock (now), the invocation's startTime, the message
\* rows (sent_at 0 for null), the stored counter sent_messages and the
\* invocation's copy of it, campaign.sent_messages (local).

\* l.34-82: configs as parseConfig returns them
ClockConfigs ==
  {[minInterval |-> 30, maxInterval |-> 40, useBatching |-> FALSE,
    batchSize |-> 20, batchPauseMin |-> 60, batchPauseMax |-> 120],
   [minInterval |-> 10, maxInterval |-> 10, useBatching |-> TRUE,
    batchSize |-> 1, batchPauseMin |-> 20, batchPauseMax |-> 20]}

\* l.438-450: time the send endpoint takes to answer
SendDurations == {0, 20 * Second}

\* time between the end of an invocation and the start of the next
InvocationGaps == {0, 30 * Second}

ClockRows == 1..NumMessages

InitClock ==
  /\ ServiceAtRest
  /\ \E config \in ClockConfigs :
       calc = [phase |-> "idle", config |-> config, now |-> Hour,
               startTime |-> Hour,
               rows |-> [m \in ClockRows |->
                           [status |-> "aguardando", sent_at |-> 0,
                            error_message |-> FALSE]],
               sent_messages |-> 0, local |-> 0, requiredDelay |-> 0,
               lastSentAt |-> 0, locked |-> 0, invocations |-> 0,
               retries |-> 0, stop |-> "none", handledAt |-> 0, claims |-> << >>]

\* l.90-303: an invocation starts, reads the campaign row, and finalizes it
\* when no row is waiting or being sent
ClockInvoke ==
  /\ calc.phase = "idle"
  /\ calc.invocations < MaxInvocations
  /\ \E gap \in InvocationGaps :
       calc' = [calc EXCEPT
         !.now = @ + gap, !.startTime = calc.now + gap,
         !.local = calc.sent_messages, !.invocations = @ + 1,
         !.stop = "none",
         !.phase = IF \E m \in ClockRows :
                        calc.rows[m].status \in RemainingStatuses
                     THEN "loop" ELSE "finished"]
  /\ UNCHANGED <<storeVars, workerVars, commands, historyVars, createVars>>

\* l.329-340: the greatest sent_at of the rows, 0 when all are null
ClockLastSentAt == LET S == {calc.rows[m].sent_at : m \in ClockRows}
                   IN  CHOOSE t \in S : \A u \in S : u <= t

\* l.309-374: head of the loop, last sent_at, and the delay required
ClockDelay ==
  /\ calc.phase = "loop"
  /\ IF ~(calc.now - calc.startTime < MAX_EXECUTION_TIME)
       THEN calc' = [calc EXCEPT !.phase = "idle", !.stop = "budget"]
       ELSE \E intervalDelay \in IntervalDelays(calc.config),
               batchPause \in BatchPauses(calc.config) :
              calc' = [calc EXCEPT
                !.phase = "wait", !.lastSentAt = ClockLastSentAt,
                !.requiredDelay =
                   RequiredDelay(calc.config, calc.local,
                                 ClockLastSentAt # 0, intervalDelay,
                                 batchPause)]
  /\ UNCHANGED <<storeVars, workerVars, commands, historyVars, createVars>>

\* l.376-396: sleep the rest of the delay, or leave when it ends too late
ClockWait_NoBudget ==
  /\ calc.phase = "wait"
  /\ LET timeSinceLast == calc.now - calc.lastSentAt
         waitTime == calc.requiredDelay - timeSinceLast
     IN  IF timeSinceLast < calc.requiredDelay
           THEN calc' = [calc EXCEPT !.phase = "select",
                                     !.now = @ + waitTime]
           ELSE calc' = [calc EXCEPT !.phase = "select"]
  /\ UNCHANGED <<storeVars, workerVars, commands, historyVars, createVars>>
ClockWait ==
  /\ calc.phase = "wait"
  /\ LET timeSinceLast == calc.now - calc.lastSentAt
         waitTime == calc.requiredDelay - timeSinceLast
     IN  IF timeSinceLast < calc.requiredDelay
           THEN IF calc.now + waitTime > calc.startTime + MAX_EXECUTION_TIME
                  THEN calc' = [calc EXCEPT !.phase = "idle",
                                            !.stop = "wait"]
                  ELSE calc' = [calc EXCEPT !.phase = "select",
                                            !.now = @ + waitTime]
           ELSE calc' = [calc EXCEPT !.phase = "select"]
  /\ UNCHANGED <<storeVars, workerVars, commands, historyVars, createVars>>

\* l.398-434: select a waiting row and lock it with sent_at = now; with none
\* left the campaign is finalized
ClockClaim ==
  /\ calc.phase = "select"
  /\ IF \E m \in ClockRows : calc.rows[m].status \in WaitingStatuses
       THEN \E m \in ClockRows :
              /\ calc.rows[m].status \in WaitingStatuses
              /\ calc' = [calc EXCEPT
                   !.phase = "send", !.locked = m,
                   !.rows[m].status = "sending",
                   !.rows[m].sent_at = calc.now,
                   !.handledAt = calc.now,
                   !.claims = Append(@, [at |-> calc.now,
                                         startTime |-> calc.startTime,
                                         previous |-> calc.handledAt])]
       ELSE calc' = [calc EXCEPT !.phase = "finished", !.stop = "done"]
  /\ UNCHANGED <<storeVars, workerVars, commands, historyVars, createVars>>

\* l.436-488: the endpoint answers; success commits sent with sent_at = now
\* and raises both counters, failure commits failed
ClockSend ==
  /\ calc.phase = "send"
  /\ \E duration \in SendDurations, success \in BOOLEAN :
       LET m == calc.locked
           end == calc.now + duration
       IN  calc' = [calc EXCEPT
             !.phase = "loop", !.locked = 0, !.now = end,
             !.rows[m] = IF success
                           THEN [status |-> "sent", sent_at |-> end,
                                 error_message |-> FALSE]
                           ELSE [status |-> "failed", sent_at |-> @.sent_at,
                                 error_message |-> TRUE],
             !.handledAt = IF success THEN end ELSE @,
             !.sent_messages = IF success THEN @ + 1 ELSE @,
             !.local = IF success THEN @ + 1 ELSE @]
  /\ UNCHANGED <<storeVars, workerVars, commands, historyVars, createVars>>

\* part_001 l.126-137: the operator retries a failed message
ClockRetry ==
  /\ calc.phase \in {"idle", "loop", "wait", "select"}
  /\ calc.retries < MaxCommands
  /\ \E m \in ClockRows :
       /\ calc.rows[m].status = "failed"
       /\ calc' = [calc EXCEPT
            !.retries = @ + 1,
            !.rows[m] = [status |-> "aguardando", sent_at |-> 0,
                         error_message |-> FALSE]]
  /\ UNCHANGED <<storeVars, workerVars, commands, historyVars, createVars>>

NextClock ==
  \/ ClockInvoke
  \/ ClockDelay
  \/ ClockWait
  \/ ClockClaim
  \/ ClockSend
  \/ ClockRetry

SpecClock == InitClock /\ [][NextClock]_vars

\* ---- the counter behind the batch pause (l.104-133, l.338-369, l.472-476) -

\* Concurrent invocations on one campaign, reduced to the stored counter
\* sent_messages, each invocation's copy campaign.sent_messages of it, and
\* the batch decision taken on that copy.

\* l.354-360: the condition of the batch pause
BatchPauseDue(config, sentMessagesCount) ==
  /\ config.useBatching
  /\ config.batchSize # 0
  /\ sentMessagesCount > 0
  /\ sentMessagesCount % config.batchSize = 0

\* l.54-60: useBatching and batchSize as parseConfig returns them
CounterConfigs ==
  {[useBatching |-> TRUE, batchSize |-> 2],
   [useBatching |-> TRUE, batchSize |-> 1],
   [useBatching |-> FALSE, batchSize |-> 2]}

InitCounter ==
  /\ ServiceAtRest
  /\ \E config \in CounterConfigs :
       calc = [phase |-> "counter", config |-> config, sent_messages |-> 0,
               invocation |-> [w \in Workers |->
                  [at |-> "idle", local |-> 0, batchPause |-> FALSE,
                   stored |-> 0]]]

\* l.104-133: the invocation reads the campaign row
CounterLoad(w) ==
  /\ calc.phase = "counter"
  /\ calc.invocation[w].at = "idle"
  /\ calc' = [calc EXCEPT !.invocation[w].at = "loop",
                          !.invocation[w].local = calc.sent_messages]
  /\ UNCHANGED <<storeVars, workerVars, commands, historyVars, createVars>>

\* l.338-369: sentMessagesCount = campaign.sent_messages and the batch
\* decision; stored records the counter in the store at that moment
CounterDecide(w) ==
  /\ calc.phase = "counter"
  /\ calc.invocation[w].at = "loop"
  /\ calc' = [calc EXCEPT
       !.invocation[w].at = "send",
       !.invocation[w].batchPause =
          BatchPauseDue(calc.config, calc.invocation[w].local),
       !.invocation[w].stored = calc.sent_messages]
  /\ UNCHANGED <<storeVars, workerVars, commands, historyVars, createVars>>

\* l.458-488: the send succeeds (stored counter and copy raised, l.472-476)
\* or fails
CounterCommit(w) ==
  /\ calc.phase = "counter"
  /\ calc.invocation[w].at = "send"
  /\ \E success \in BOOLEAN :
       IF success /\ calc.sent_messages < MaxTotalMessages
         THEN calc' = [calc EXCEPT
                !.invocation[w].at = "loop",
                !.invocation[w].local = @ + 1,
                !.sent_messages = increment_campaign_sent(@)]
         ELSE calc' = [calc EXCEPT !.invocation[w].at = "loop"]
  /\ UNCHANGED <<storeVars, workerVars, commands, historyVars, createVars>>

\* l.309-312, l.510-531: the invocation leaves the loop and returns
CounterReturn(w) ==
  /\ calc.phase = "counter"
  /\ calc.invocation[w].at = "loop"
  /\ calc' = [calc EXCEPT !.invocation[w].at = "idle"]
  /\ UNCHANGED <<storeVars, workerVars, commands, historyVars, createVars>>

NextCounter ==
  \E w \in Workers :
    \/ CounterLoad(w)
    \/ CounterDecide(w)
    \/ CounterCommit(w)
    \/ CounterReturn(w)

SpecCounter == InitCounter /\ [][NextCounter]_vars

\* ---- store reads that fail (l.275-434) -----------------------------------

\* One invocation on one campaign whose store reads may return an error: the
\* client then hands back data = null (count = null) together with the
\* error.  calc holds the message statuses, the campaign status, the place
\* in the handler, the first read that failed, and what the invocation did
\* to the campaign after that failure.

ReadOutcomes == {"ok", "error"}

RowStatuses == {"aguardando", "sent", "failed"}

InitReads ==
  /\ ServiceAtRest
  /\ \E rows \in [1..NumMessages -> RowStatuses],
        status \in {"processing", "paused"} :
       calc = [phase |-> "pending", rows |-> rows, status |-> status,
               messageToLock |-> 0, failed |-> "none",
               claimedSince |-> 0, finalizedSince |-> FALSE]

ReadCount(statuses) ==
  Cardinality({m \in 1..NumMessages : calc.rows[m] \in statuses})

ReadFails(name) == IF calc.failed = "none" THEN name ELSE calc.failed

\* l.240-272: finalizeCampaign
ReadFinalize(failed) ==
  calc' = [calc EXCEPT !.phase = "next", !.status = "finished",
                       !.failed = failed,
                       !.finalizedSince = failed # "none"]

\* l.275-303: the completion check; pendingError leaves the campaign
ReadPendingCount ==
  /\ calc.phase = "pending"
  /\ \E pending \in ReadOutcomes, active \in ReadOutcomes :
       IF pending = "error"
         THEN calc' = [calc EXCEPT !.phase = "next",
                                   !.failed = ReadFails("pendingCount")]
         ELSE IF ReadCount(WaitingStatuses) = 0
           THEN IF active = "ok" /\ ReadCount({"sending"}) = 0
                  THEN ReadFinalize(calc.failed)
                  ELSE calc' = [calc EXCEPT !.phase = "loop"]
           ELSE calc' = [calc EXCEPT !.phase = "loop"]
  /\ UNCHANGED <<storeVars, workerVars, commands, historyVars, createVars>>

\* l.309-327: head of the loop (the budget may be used up) and the re-read
\* of the status, of which only data is looked at
ReadStatus ==
  /\ calc.phase = "loop"
  /\ \/ calc' = [calc EXCEPT !.phase = "next"]
     \/ \E outcome \in ReadOutcomes :
          LET currentStatus == IF outcome = "ok" THEN <<calc.status>>
                                                 ELSE Missing
              failed == IF outcome = "ok" THEN calc.failed
                                          ELSE ReadFails("status")
          IN  IF currentStatus # Missing /\ currentStatus[1] \in StopStatuses
                THEN calc' = [calc EXCEPT !.phase = "next",
                                          !.failed = failed]
                ELSE calc' = [calc EXCEPT !.phase = "lastsent",
                                          !.failed = failed]
  /\ UNCHANGED <<storeVars, workerVars, commands, historyVars, createVars>>

\* l.329-396: the last sent_at, of which only data is looked at; without
\* data the delay is 0, with data the wait is slept or the loop is left
ReadLastSentAt ==
  /\ calc.phase = "lastsent"
  /\ \/ \E outcome \in ReadOutcomes :
          calc' = [calc EXCEPT
            !.phase = "select",
            !.failed = IF outcome = "ok" THEN calc.failed
                                         ELSE ReadFails("lastSentAt")]
     \/ /\ ReadCount({"sent", "failed"}) > 0
        /\ calc' = [calc EXCEPT !.phase = "next"]
  /\ UNCHANGED <<storeVars, workerVars, commands, historyVars, createVars>>

\* l.398-420: the select of a waiting row, of which only data is looked at;
\* without a row the remaining rows are counted
ReadMessageToLock ==
  /\ calc.phase = "select"
  /\ \E outcome \in ReadOutcomes, remaining \in ReadOutcomes :
       \/ /\ outcome = "ok"
          /\ \E m \in 1..NumMessages :
               /\ calc.rows[m] \in WaitingStatuses
               /\ calc' = [calc EXCEPT !.phase = "lock",
                                       !.messageToLock = m]
       \/ /\ outcome = "error" \/ ReadCount(WaitingStatuses) = 0
          /\ LET failed == IF outcome = "ok" THEN calc.failed
                                             ELSE ReadFails("messageToLock")
             IN  IF remaining = "ok" /\ ReadCount(RemainingStatuses) = 0
                   THEN ReadFinalize(failed)
                   ELSE calc' = [calc EXCEPT !.phase = "next",
                                             !.failed = failed]
  /\ UNCHANGED <<storeVars, workerVars, commands, historyVars, createVars>>

\* l.422-488: lock, send and commit of the selected row
ReadClaim ==
  /\ calc.phase = "lock"
  /\ \E outcome \in {"sent", "failed"} :
       calc' = [calc EXCEPT
         !.phase = "loop", !.messageToLock = 0,
         !.rows[calc.messageToLock] = outcome,
         !.claimedSince = IF calc.failed # "none" THEN @ + 1 ELSE @]
  /\ UNCHANGED <<storeVars, workerVars, commands, historyVars, createVars>>

\* the operator pauses the campaign while the invocation runs
ReadPauseCommand ==
  /\ calc.phase \in {"loop", "lastsent", "select", "lock"}
  /\ calc.status = "processing"
  /\ calc' = [calc EXCEPT !.status = "paused"]
  /\ UNCHANGED <<storeVars, workerVars, commands, historyVars, createVars>>

NextReads ==
  \/ ReadPendingCount
  \/ ReadStatus
  \/ ReadLastSentAt
  \/ ReadMessageToLock
  \/ ReadClaim
  \/ ReadPauseCommand

SpecReads == InitReads /\ [][NextReads]_vars

\* ---- the two readers of a stored config (index.ts l.29-82, part_010) -----

\* l.29-32: parseInt(String(val), 10), the default when that is NaN.  The
\* stored values of this model are integers or absent: the decimal string of
\* an integer parses to that integer, String(undefined) parses to NaN.
getSafeNumber(val, defaultVal) == IF val # Missing THEN val[1] ELSE defaultVal

\* l.34-82: the dispatcher's reading of the stored config; '' stands for an
\* absent time or date of the automatic pause
parseConfig(config) ==
  LET autoPauseEnabled ==
        Nullish(Member(config.automaticPause, "enabled"),
                Member(config.automatic_pause, "enabled"))
      autoPauseAt ==
        Nullish(Member(config.automaticPause, "pauseTime"),
          Nullish(Member(config.automatic_pause, "pause_at"),
                  Member(config.automaticPause, "pause_at")))
      autoResumeDate ==
        Nullish(Member(config.automaticPause, "resumeDate"),
                Member(config.automatic_pause, "resume_date"))
      autoResumeTime ==
        Nullish(Member(config.automaticPause, "resumeTime"),
                Member(config.automatic_pause, "resume_time"))
  IN  [minInterval |->
         getSafeNumber(Nullish(config.minInterval, config.min_interval), 30),
       maxInterval |->
         getSafeNumber(Nullish(config.maxInterval, config.max_interval), 40),
       useBatching |->
         ValueOr(Nullish(config.useBatching,
                         Member(config.batch_config, "enabled")), FALSE),
       batchSize |->
         getSafeNumber(Nullish(config.batchSize,
                               Member(config.batch_config, "size")), 20),
       batchPauseMin |->
         getSafeNumber(Nullish(config.batchPauseMin,
                               Member(config.batch_config, "pause_min")), 60),
       batchPauseMax |->
         getSafeNumber(Nullish(config.batchPauseMax,
                               Member(config.batch_config, "pause_max")),
                       120),
       businessHoursStrategy |->
         ValueOr(Nullish(config.businessHoursStrategy,
                         Member(config.business_hours, "strategy")),
                 "ignore"),
       businessHoursPauseTime |->
         ValueOr(Nullish(config.businessHoursPauseTime,
                         Member(config.business_hours, "pause_at")), Missing),
       businessHoursResumeTime |->
         ValueOr(Nullish(config.businessHoursResumeTime,
                         Member(config.business_hours, "resume_at")),
                 Missing),
       automaticPause |->
         [enabled |-> ValueOr(autoPauseEnabled, FALSE),
          pause_at |-> ValueOr(autoPauseAt, Missing),
          resume_date |-> autoResumeDate,
          resume_time |-> ValueOr(autoResumeTime, Missing)]]

\* stored configs in both spellings, with each key present or absent
SpelledConfigs ==
  {[NoDbConfig EXCEPT !.minInterval = minCamel, !.min_interval = minSnake,
                      !.maxInterval = maxCamel, !.max_interval = maxSnake,
                      !.businessHoursStrategy = strategy,
                      !.business_hours = hours,
                      !.useBatching = batching, !.batch_config = batch] :
     minCamel \in {Missing, <<10>>}, minSnake \in {Missing, <<10>>},
     maxCamel \in {Missing, <<20>>}, maxSnake \in {Missing, <<20>>},
     strategy \in {Missing, <<"pause">>},
     hours \in {Missing, <<HoursPaused>>},
     batching \in {Missing, <<TRUE>>},
     batch \in {Missing, <<BatchOfTwo>>}}

InitConfig ==
  /\ ServiceAtRest
  /\ \E dbConfig \in SpelledConfigs :
       calc = [phase |-> "stored", dbConfig |-> dbConfig]

\* the dispatcher (l.158) and the planner (part_010 l.298-301) read the
\* same stored config
NormalizeConfig ==
  /\ calc.phase = "stored"
  /\ calc' = [phase |-> "parsed", dbConfig |-> calc.dbConfig,
              parsed |-> parseConfig(calc.dbConfig),
              mapped |-> mapDbConfigToScheduleConfig(calc.dbConfig, 0)]
  /\ UNCHANGED <<storeVars, workerVars, commands, historyVars, createVars>>

SpecConfig == InitConfig /\ [][NormalizeConfig]_vars

\* ---- properties -----------------------------------------------------------

OtherWorkers(w) == Workers \ {w}

\* C1: claim uniqueness.  During one stay of a message in waiting at most one
\* lock (conditional update waiting -> sending) of it takes effect, and the
\* send endpoint is never called more often for a message than locks of it
\* took effect: an invocation that got no row back sends nothing for it.
ClaimUniqueness ==
  \A m \in Messages :
    /\ lockWins[m] <= 1
    /\ sendCalls[m] <= locksTaken[m]

\* C1 witness: two invocations selected the same row; the lock of one took
\* effect and it is about to send, the other got no row back.
ClaimContested ==
  \E w \in Workers : \E v \in OtherWorkers(w) : \E m \in Messages :
    /\ pc[w] = "send" /\ lockedMessage[w] = m
    /\ pc[v] = "loop" /\ messageToLock[v] = m
    /\ lockWins[m] = 1

\* C2: as long as no retry-message command was issued, the send endpoint is
\* called at most once for each message, whatever the interleaving of the
\* invocations.
NoDuplicateSends ==
  ~retryIssued => \A m \in Messages : sendCalls[m] <= 1

\* C2 witness: without any retry, two invocations are committing sends of
\* different messages at the same time and every message was sent once.
TwoInvocationsSentEachOnce ==
  /\ ~retryIssued
  /\ \E w \in Workers : \E v \in OtherWorkers(w) :
       /\ pc[w] = "commit" /\ pc[v] = "commit"
       /\ lockedMessage[w] # lockedMessage[v]
  /\ \A m \in Messages : sendCalls[m] = 1

\* C3: a message becomes sent only in the commit of the invocation that
\* locked it, and only when the send endpoint answered that invocation's
\* request with a 2xx status and a body whose success field is true.
SentOnlyAfterSuccess ==
  [][\A m \in Messages :
       (msg[m].status # "sent" /\ msg'[m].status = "sent") =>
         \E w \in Workers :
           /\ pc[w] = "commit" /\ lockedMessage[w] = m
           /\ response[w].kind = "answer"
           /\ response[w].ok /\ response[w].success]_vars

\* C3 witness: one message was committed as sent, and another one, whose
\* request was answered 2xx with success = false, was committed as failed.
SentAndRefusedCommitted ==
  \E m \in Messages : \E w \in Workers :
    /\ msg[m].status = "sent" /\ sendCalls[m] = 1
    /\ pc[w] = "commit" /\ lockedMessage[w] # m
    /\ response[w] = [kind |-> "answer", ok |-> TRUE, success |-> FALSE]

\* C4: whenever the campaign is finished, sent_messages equals the number
\* of its messages in sent.
FinishedCounterMatches ==
  campaignStatus = "finished" => sent_messages = CountMessages({"sent"})

\* C5: a campaign that is finished or canceled has no message in waiting or
\* sending.
TerminalHasNoOpenMessages ==
  campaignStatus \in {"finished", "canceled"} =>
    CountMessages(RemainingStatuses) = 0

\* C6: sent_messages never decreases; a commit raises it by exactly 1, and
\* the reconciliation of finalizeCampaign neither lowers it nor sets it
\* above the number of messages in sent.
CounterMonotone ==
  [][/\ sent_messages' >= sent_messages
     /\ sent_messages' # sent_messages =>
          \/ /\ sent_messages' = sent_messages + 1
             /\ \E w \in Workers : pc[w] = "incr" /\ pc'[w] = "loop"
          \/ /\ \E w \in Workers : pc[w] = "fin_update" /\ pc'[w] = "respond"
             /\ sent_messages' <= CountMessages({"sent"})]_vars

\* C7: once a pause of the running campaign is persisted and until a resume
\* is issued, at most one more message is committed as sent and no message
\* is locked after that commit.
PauseStopsClaims ==
  pauseInEffect => (sentSincePause <= 1 /\ claimsAfterSent = 0)

\* C8: no dispatcher step (a step that is no operator command) changes a
\* persisted status canceled.
CanceledIsTerminal ==
  [][(campaignStatus = "canceled" /\ commands' = commands) =>
       campaignStatus' = "canceled"]_vars

\* C9: once the campaign is finished, no dispatcher step and no pause,
\* resume or retry-message command changes its status, and no message is
\* locked.
FinishedIsTerminal ==
  [][campaignStatus = "finished" =>
       /\ campaignStatus' = "finished"
       /\ \A m \in Messages :
            ~(msg[m].status # "sending" /\ msg'[m].status = "sending")]_vars

\* C10: a command changes a message row only when the row is failed, and
\* then to waiting with error_message and sent_at cleared.
RetryOnlyFailed ==
  [][\A m \in Messages :
       (commands' # commands /\ msg'[m] # msg[m]) =>
         /\ msg[m].status = "failed"
         /\ msg'[m] = [status |-> "aguardando", sent_at |-> Null,
                       error_message |-> Null]]_vars

\* C11: pause and resume are idempotent and write only the status.  A pause
\* leaves the message rows and every field of the campaign row but status
\* as they were, and pause applied to the store it produced produces that
\* store again; likewise for resume.
PauseResumeIdempotent ==
  [][/\ Pause =>
          /\ CampaignRow' = [CampaignRow EXCEPT !.status = "paused"]
          /\ msg' = msg
          /\ pause(CampaignRow') = CampaignRow'
     /\ Resume =>
          /\ CampaignRow' = [CampaignRow EXCEPT !.status = "active"]
          /\ msg' = msg
          /\ resume(CampaignRow') = CampaignRow']_vars

\* C11 witness: a pause was applied to the campaign while an invocation was
\* between the commit of a message as sent and the increment of the counter.
PausedBetweenCommitAndIncrement ==
  /\ commands = 1 /\ campaignStatus = "paused"
  /\ \E w \in Workers : pc[w] = "incr" /\ msg[lockedMessage[w]].status = "sent"

\* C12: start-time scheduling.  No invocation whose body names no
\* campaign_id takes the campaign (and so none moves it to processing or
\* locks a message of it) when the campaign's scheduled_at is later than the
\* instant of the eligibility query.
ScanNeverTakesUndue == ~scanTookUndue

\* C12 witness: the campaign is eligible by its status and not yet due; an
\* invocation has come back from the eligibility query without it, while
\* another one, whose body named the campaign, is sending a message of it.
UndueSkippedByScan ==
  \E w \in Workers : \E v \in OtherWorkers(w) :
    /\ pc[w] = "respond" /\ reply[w] = OkResponse(<< >>)
    /\ campaignStatus \in EligibleStatuses
    /\ ~scheduled_due
    /\ pc[v] = "send"

\* C13: when the send of a locked message fails (no 2xx answer, a body
\* without success, or an exception), the commit sets the message to failed
\* with an error_message, leaves sent_messages alone and returns to the head
\* of the send loop; and no lock ever takes effect on a message in failed.
FailedSendHandled ==
  [][/\ \A w \in Workers :
          (/\ pc[w] = "commit" /\ pc'[w] # "commit"
           /\ ~(response[w].kind = "answer" /\ response[w].ok
                  /\ response[w].success)) =>
            /\ msg'[lockedMessage[w]].status = "failed"
            /\ msg'[lockedMessage[w]].error_message # Null
            /\ sent_messages' = sent_messages
            /\ pc'[w] = "loop"
     /\ \A m \in Messages :
          msg[m].status = "failed" => msg'[m].status # "sending"]_vars

\* C13 witness: the only invocation so far had a send fail, the message is
\* failed with an error_message and was sent once, the counter is 0, and the
\* same invocation has locked the other message and is about to send it.
WentOnAfterFailedSend ==
  /\ invocations = 1 /\ commands = 0 /\ sent_messages = 0
  /\ \E w \in Workers : \E m \in Messages :
       /\ msg[m].status = "failed" /\ msg[m].error_message # Null
       /\ sendCalls[m] = 1
       /\ pc[w] = "send" /\ lockedMessage[w] # m

\* C14: an invocation ends only by returning a response, and every response
\* it returns has HTTP status 200 and a boolean success field; success is
\* false when a step threw (here the business-hours gate on a pause time
\* that is no text), and every status in results is one of continued,
\* finished, paused_temporarily.
AlwaysAnswers200 ==
  [][\A w \in Workers :
       /\ (pc[w] # "idle" /\ pc'[w] = "idle") => pc[w] = "respond"
       /\ (pc[w] # "respond" /\ pc'[w] = "respond") =>
            /\ reply'[w].http = 200
            /\ reply'[w].success \in BOOLEAN
            /\ \A i \in DOMAIN reply'[w].results :
                 reply'[w].results[i] \in
                   {"continued", "finished", "paused_temporarily"}
            /\ (pc[w] = "gate" /\ businessHoursPauseTime = NotText) =>
                 ~reply'[w].success]_vars

\* C14 witness: the only invocation so far moved the campaign to processing,
\* threw in the business-hours gate, and is returning the response of the
\* catch branch.
ErrorAnsweredAfterStart ==
  /\ invocations = 1
  /\ campaignStatus = "processing"
  /\ \E w \in Workers :
       /\ pc[w] = "respond" /\ reply[w] = ErrorResponse
       /\ started_at = w

MinuteOfDay(date) == (date % Day) \div Minute

\* C18: with the strategy pause and a resume time before the pause time,
\* every instant of the schedule has a minute of day t with
\* resume time <= t < pause time, also when an automatic pause is configured.
ScheduleWithinBusinessHours ==
  (/\ calc.phase = "schedule"
   /\ calc.config.businessHoursStrategy = "pause"
   /\ resumeT(calc.config) < pauseT(calc.config)) =>
    \A i \in DOMAIN calc.schedule :
      /\ resumeT(calc.config) <= MinuteOfDay(calc.schedule[i])
      /\ MinuteOfDay(calc.schedule[i]) < pauseT(calc.config)

\* the cursor of message i (counted from 1) before the pause windows are
\* looked at: the start, or the instant of message i - 1 plus interval and
\* batch pause
CursorBeforeWindows(i) ==
  IF i = 1
    THEN calc.config.startTime
    ELSE calc.schedule[i - 1] + avgInterval(calc.config)
           + (IF BatchPauseApplies(calc.config, i - 1)
                THEN avgBatchPause(calc.config) ELSE 0)

\* the example of C19: 18:00/08:00, interval 1 s, no batching, no automatic
\* pause, start 17:59:59
RollForwardExample ==
  [minInterval |-> 1, maxInterval |-> 1, useBatching |-> FALSE,
   batchSize |-> 0, batchPauseMin |-> 0, batchPauseMax |-> 0,
   businessHoursStrategy |-> "pause", businessHoursPauseTime |-> <<18, 0>>,
   businessHoursResumeTime |-> <<8, 0>>, automaticPause |-> FALSE,
   pauseTime |-> Missing, resumeDate |-> Missing, resumeTime |-> Missing,
   startTime |-> 17 * Hour + 59 * Minute + 59 * Second]

\* C19: business-hours roll-forward.  With the strategy pause and no
\* automatic pause, a cursor whose minute of day is >= the pause time gives
\* the resume time of the next day, one whose minute of day is < the resume
\* time gives the resume time of the same day, and any other cursor is
\* planned as it is; and the example (start 17:59:59, n = 2) is planned as
\* 17:59:59 and 08:00:00 of the next day.
RollForwardRule ==
  (/\ calc.phase = "schedule"
   /\ calc.config.businessHoursStrategy = "pause"
   /\ ~calc.config.automaticPause) =>
    /\ \A i \in DOMAIN calc.schedule :
         LET cursor == CursorBeforeWindows(i)
             midnight == (cursor \div Day) * Day
         IN  calc.schedule[i] =
               IF MinuteOfDay(cursor) >= pauseT(calc.config)
                 THEN midnight + Day + resumeT(calc.config) * Minute
                 ELSE IF MinuteOfDay(cursor) < resumeT(calc.config)
                   THEN midnight + resumeT(calc.config) * Minute
                   ELSE cursor
    /\ (calc.config = RollForwardExample /\ calc.totalMessages = 2) =>
         calc.schedule = <<17 * Hour + 59 * Minute + 59 * Second,
                           Day + 8 * Hour>>

\* C19 witness: the schedule of the example has been calculated.
RollForwardExampleCalculated ==
  /\ calc.phase = "schedule"
  /\ calc.config = RollForwardExample
  /\ calc.totalMessages = 2
  /\ calc.schedule[2] = Day + 8 * Hour

\* C20: the schedule has exactly totalMessages instants in non-decreasing
\* order; when no pause window is configured (strategy ignore, no automatic
\* pause) the first instant is the start and every later instant is the one
\* before it plus the mean interval, plus the mean batch pause exactly when
\* batching is on and the index, counted from 0, is a multiple of batchSize.
ScheduleShape ==
  calc.phase = "schedule" =>
    LET config == calc.config
        t == calc.schedule
    IN  /\ Len(t) = calc.totalMessages
        /\ \A i \in DOMAIN t : \A j \in DOMAIN t : i <= j => t[i] <= t[j]
        /\ (config.businessHoursStrategy = "ignore"
              /\ ~config.automaticPause) =>
             \A i \in DOMAIN t :
               IF i = 1
                 THEN t[i] = config.startTime
                 ELSE t[i] - t[i - 1] =
                        (config.minInterval + config.maxInterval) * 500
                        + (IF config.useBatching
                                /\ (i - 1) % config.batchSize = 0
                             THEN (config.batchPauseMin
                                     + config.batchPauseMax) * 500
                             ELSE 0)

\* C20 witness: batching is on, no pause window is configured and there are
\* as many messages as a batch holds; the two instants are one interval
\* apart.
FullBatchWithoutPause ==
  /\ calc.phase = "schedule"
  /\ calc.config.useBatching
  /\ calc.config.businessHoursStrategy = "ignore"
  /\ ~calc.config.automaticPause
  /\ calc.totalMessages = calc.config.batchSize
  /\ calc.config.batchPauseMin > 0
  /\ calc.schedule = <<calc.config.startTime,
                       calc.config.startTime + 30 * Second>>

\* C16: as long as no message has a sent_at, the delay the dispatcher
\* requires is 0 and the next message is selected without any wait, whatever
\* the intervals and the batching settings.
FirstMessageWithoutDelay ==
  [][(calc.phase = "loop" /\ calc.sentAt = << >>) =>
       /\ calc'.phase = "select"
       /\ calc'.requiredDelay = 0
       /\ calc'.now = calc.now]_vars

\* C16 witness: with intervals of 30 s and batching on, the first message
\* was sent at the instant the invocation started.
FirstMessageSentAtStart ==
  /\ calc.phase = "loop"
  /\ calc.config.minInterval = 30 /\ calc.config.useBatching
  /\ calc.sentAt = <<calc.startTime>>

\* C17: calculator/dispatcher agreement.  With minInterval = maxInterval and
\* batchPauseMin = batchPauseMax, every sent_at realized by the invocation
\* is the instant calculateCampaignSchedule plans for that message.
ChainAgreesWithPlan ==
  (/\ calc.phase \in ChainPhases
   /\ calc.config.minInterval = calc.config.maxInterval
   /\ calc.config.batchPauseMin = calc.config.batchPauseMax) =>
    \A i \in DOMAIN calc.sentAt :
      calc.sentAt[i] =
        calculateCampaignSchedule(calc.config, calc.totalMessages)[i]

\* the existing campaigns of the list that have a known start and whose
\* window, widened by 60 minutes on both sides, the candidate's window meets
ConflictingIndexes ==
  {i \in 1..Len(calc.existingCampaigns) :
     LET existing == calc.existingCampaigns[i]
     IN  /\ campaignStartStr(existing) # Missing
         /\ estimateCampaignEndTime(calc.config, calc.totalMessages)
              > campaignStartStr(existing)[1] - 60 * Minute
         /\ calc.config.startTime < campaignEndOf(existing) + 60 * Minute}

\* C21: checkScheduleConflict reports a conflict exactly when some existing
\* campaign with a known start has candidate.end > existing.start - 60 min
\* and candidate.start < existing.end + 60 min; it then returns the id and
\* name of the first such campaign of the list and that campaign's estimated
\* end + 65 min as suggestedTime, which is 12:05 for an existing window
\* [10:00, 11:00]; otherwise it returns hasConflict = false alone.
ConflictRule ==
  calc.phase = "checked" =>
    IF ConflictingIndexes = {}
      THEN calc.result = [hasConflict |-> FALSE]
      ELSE
        LET i == CHOOSE j \in ConflictingIndexes :
                   \A k \in ConflictingIndexes : j <= k
            existing == calc.existingCampaigns[i]
        IN  /\ calc.result =
                 [hasConflict |-> TRUE,
                  conflictingCampaignId |-> existing.id,
                  conflictingCampaignName |-> existing.name,
                  suggestedTime |-> campaignEndOf(existing) + 65 * Minute]
            /\ (/\ campaignStartStr(existing)[1] = 10 * Hour
                /\ campaignEndOf(existing) = 11 * Hour)
                 => calc.result.suggestedTime = 12 * Hour + 5 * Minute

\* C21 witness: the existing campaigns are one without a known start and
\* then the one occupying [10:00, 11:00]; the candidate starts at 10:30 and
\* lasts 20 minutes; the planner names the second campaign and suggests
\* 12:05.
ConflictExampleChecked ==
  /\ calc.phase = "checked"
  /\ Len(calc.existingCampaigns) = 2
  /\ campaignStartStr(calc.existingCampaigns[1]) = Missing
  /\ campaignStartStr(calc.existingCampaigns[2]) = <<10 * Hour>>
  /\ campaignEndOf(calc.existingCampaigns[2]) = 11 * Hour
  /\ calc.config.startTime = 10 * Hour + 30 * Minute
  /\ estimateCampaignEndTime(calc.config, calc.totalMessages)
       = 10 * Hour + 50 * Minute
  /\ calc.result = [hasConflict |-> TRUE,
                    conflictingCampaignId |-> "id_a",
                    conflictingCampaignName |-> "A",
                    suggestedTime |-> 12 * Hour + 5 * Minute]

\* C22: the start suggested on a conflict is free of conflicts: the same
\* candidate moved to suggestedTime and checked against the same existing
\* campaigns gets hasConflict = false.
SuggestionConflictFree ==
  calc.phase = "moved" => ~calc.result.hasConflict

\* C23: with businessHoursStrategy = pause no message is claimed or sent at
\* an instant whose time of day lies outside [resumeAt, pauseAt), also when
\* the window closes while an invocation that started inside it is in its
\* send loop.
SendsWithinBusinessHours ==
  (/\ calc.phase \in ChainPhases
   /\ calc.config.businessHoursStrategy = "pause") =>
    \A i \in DOMAIN calc.sentAt :
      /\ MinuteOfDay(calc.sentAt[i]) >= resumeT(calc.config)
      /\ MinuteOfDay(calc.sentAt[i]) < pauseT(calc.config)

\* C24: in every reachable state every message whose status is sent has a
\* sent_at that is not null, whatever the interleaving of the dispatcher's
\* commits with retry-message commands.
SentHasSentAt ==
  \A m \in DOMAIN msg : msg[m].status = "sent" => msg[m].sent_at # Null

\* C24 witness: a retry-message command made a message waiting again after
\* it had been sent; it was locked and sent a second time, and the commit of
\* that second send wrote sent together with sent_at.
SentAgainAfterRetry ==
  /\ retryIssued
  /\ \E m \in Messages :
       /\ sendCalls[m] = 2
       /\ msg[m] = [status |-> "sent", sent_at |-> CommitInstant,
                    error_message |-> Null]

\* C25: after a create command has returned, with success or with the error
\* of one of its message-row inserts, total_messages equals the number of
\* message rows stored for the campaign, and no dispatcher step changes
\* total_messages.
TotalMessagesIsRowCount ==
  [][/\ (campaignStatus' # Null /\ create'.phase \in {"returned", "thrown"})
          => total_messages' = Cardinality(DOMAIN msg')
     /\ pc' # pc => total_messages' = total_messages]_vars

\* C30: the campaign is never finished while create is still inserting its
\* message rows: whenever the status is finished, all total_messages rows
\* exist and each is sent or failed, also when a dispatcher scan runs
\* between the insert of the campaign row and the insert of the rows.
FinishedHasAllRows ==
  campaignStatus = "finished" =>
    /\ create.phase # "inserting"
    /\ Cardinality(DOMAIN msg) = total_messages
    /\ \A m \in DOMAIN msg : msg[m].status \in {"sent", "failed"}

\* C28: started_at is set once: after the first dispatcher entry has written
\* it, no later step of any invocation writes a different value, also not an
\* invocation that loaded the campaign row while started_at was still null.
StartedAtSetOnce ==
  [][started_at # 0 => started_at' = started_at]_vars

\* C29: while the persisted status is paused and no resume is issued, no
\* step of a dispatcher invocation writes the campaign's status: an
\* invocation that selected the campaign before the pause overwrites paused
\* neither with processing on entry nor with finished at finalization.
PausedNotOverwritten ==
  [][(campaignStatus = "paused" /\ commands' = commands) =>
       campaignStatus' = "paused"]_vars

SendingEventuallyLeft ==
  \A m \in Messages :
    (msg[m].status = "sending") ~> (msg[m].status # "sending")

CampaignMinuteOfDay(now) == ((now + 21 * Hour) % Day) \div Minute
CampaignDay(now) == (now + 21 * Hour) \div Day - 1

\* C32: the dispatcher's business-hours gate is closed exactly when the
\* minute of day t in the campaign timezone has t >= pauseAt or t < resumeAt,
\* pauseAt and resumeAt being the HH:MM values at minute precision (18:00 and
\* 08:00 when absent), which is the test of the calculator.
BusinessGateByMinute ==
  (calc.phase = "gate" /\ calc.config.businessHoursStrategy = "pause") =>
    LET t == CampaignMinuteOfDay(calc.now)
        pauseAt == IF calc.config.businessHoursPauseTime # Missing
                     THEN calc.config.businessHoursPauseTime[1] * 60
                            + calc.config.businessHoursPauseTime[2]
                     ELSE DefaultPauseHour * 60
        resumeAt == IF calc.config.businessHoursResumeTime # Missing
                      THEN calc.config.businessHoursResumeTime[1] * 60
                             + calc.config.businessHoursResumeTime[2]
                      ELSE DefaultResumeHour * 60
    IN  BusinessHoursGate(calc.config, brtHoursOf(calc.now))
          <=> (t >= pauseAt \/ t < resumeAt)

\* C33: the automatic pause gate is closed exactly when the pause is
\* configured, now < resumeAt, and the time of day of now is at or after
\* pauseAt or today is a day strictly after the campaign's start day (time
\* of day and days in the campaign timezone); it is looked at before the
\* business hours, and from resumeAt on it is never closed.
AutomaticGateRule ==
  calc.phase = "gate" =>
    LET automaticPause == calc.config.automaticPause
        configured == /\ automaticPause.enabled
                      /\ automaticPause.pause_at # Missing
                      /\ automaticPause.resume_date # Missing
                      /\ automaticPause.resume_time # Missing
        closed == /\ configured
                  /\ calc.now < resumeDateTimeOf(automaticPause)
                  /\ \/ CampaignMinuteOfDay(calc.now)
                          >= automaticPause.pause_at[1] * 60
                               + automaticPause.pause_at[2]
                     \/ CampaignDay(calc.now) > CampaignDay(calc.start)
    IN  /\ closed <=> (calc.check.pauseReason = "Automatic Pause")
        /\ closed => calc.check.shouldPause

OneMessageAtATime ==
  [][\A w \in Workers :
       LET claims == lockedMessage'[w] # lockedMessage[w]
                       /\ lockedMessage'[w] # 0
           held == pc[w] \in {"send", "commit"}
       IN  /\ claims =>
                /\ pc[w] = "lock" /\ pc'[w] = "send"
                /\ lockedMessage[w] = 0
                /\ msg[lockedMessage'[w]].status \in WaitingStatuses
                /\ msg'[lockedMessage'[w]].status = "sending"
           /\ (locksTaken' # locksTaken /\ pc'[w] # pc[w]) => claims
           /\ held =>
                /\ lockedMessage[w] # 0
                /\ lockedMessage'[w] \in {lockedMessage[w], 0}
                /\ pc'[w] \in {"send", "commit"} =>
                     lockedMessage'[w] = lockedMessage[w]
           /\ (held /\ pc'[w] \notin {"send", "commit"}) =>
                /\ pc[w] = "commit"
                /\ msg'[lockedMessage[w]].status \in {"sent", "failed"}
           /\ (pc'[w] = "lock" /\ pc[w] # "lock") =>
                /\ lockedMessage[w] = 0
                /\ pc[w] \notin {"send", "commit", "incr"}]_vars
SecondClaimAfterCommit ==
  \E w \in Workers : \E m, n \in DOMAIN msg :
    /\ m # n
    /\ pc[w] = "send"
    /\ lockedMessage[w] = n
    /\ msg[n].status = "sending"
    /\ msg[m].status = "sent"
    /\ invocations = 1
    /\ sent_messages = 1

\* C36: with invocations one at a time, every claim other than the first
\* send of the campaign happens at least minInterval seconds after the
\* sentAt of the message handled before it, also across invocations, after
\* failed sends and after retry-message commands.
ClaimsPaced ==
  \A i \in 1..Len(calc.claims) :
    calc.claims[i].previous # 0 =>
      calc.claims[i].at - calc.claims[i].previous
        >= calc.config.minInterval * Second

\* C37: the batch pause is added exactly when batching is on, the current
\* sentMessages is above 0 and sentMessages mod batchSize = 0, sentMessages
\* being the campaign's persisted count at that moment, also when other
\* invocations have sent in the meantime.
BatchPauseOnStoredCount ==
  \A w \in Workers :
    calc.invocation[w].at = "send" =>
      (calc.invocation[w].batchPause
         <=> /\ calc.config.useBatching
             /\ calc.invocation[w].stored > 0
             /\ calc.invocation[w].stored % calc.config.batchSize = 0)

\* C38: the claim writes a provisional sentAt together with the status
\* sending; a successful commit overwrites sentAt with the commit instant
\* and sets errorMessage to null; a failed commit sets the status failed and
\* an errorMessage and leaves sentAt as it is, which for a row still in
\* sending is the value the claim wrote.
ClaimAndCommitWrites ==
  [][\A w \in Workers :
       /\ (lockedMessage'[w] # lockedMessage[w] /\ lockedMessage'[w] # 0) =>
            LET m == lockedMessage'[w]
            IN  msg' = [msg EXCEPT ![m].status = "sending",
                                   ![m].sent_at = ClaimInstant]
       /\ (pc[w] = "commit" /\ pc'[w] # "commit") =>
            LET m == lockedMessage[w]
            IN  IF SendSucceeded(response[w])
                  THEN msg' = [msg EXCEPT ![m] =
                         [status |-> "sent", sent_at |-> CommitInstant,
                          error_message |-> Null]]
                  ELSE /\ msg'[m].status = "failed"
                       /\ msg'[m].error_message # Null
                       /\ msg'[m].sent_at = msg[m].sent_at
                       /\ msg[m].status = "sending" =>
                            msg'[m].sent_at = ClaimInstant
                       /\ \A n \in DOMAIN msg : n # m => msg'[n] = msg[n]]_vars
SentAndFailedRows ==
  \E m, n \in DOMAIN msg :
    /\ msg[m] = [status |-> "sent", sent_at |-> CommitInstant,
                 error_message |-> Null]
    /\ msg[n].status = "failed"
    /\ msg[n].sent_at = ClaimInstant
    /\ msg[n].error_message # Null
    /\ \A w \in Workers : pc[w] = "idle"

\* C39: when a store read fails (the pending count, the re-read of the
\* status, the query of the last sentAt, the select of a waiting message),
\* the dispatcher claims no further message of that campaign in this
\* invocation, does not finalize it, and goes on to the next campaign.
FailedReadLeavesCampaign ==
  calc.failed # "none" =>
    /\ calc.phase = "next"
    /\ calc.claimedSince = 0
    /\ ~calc.finalizedSince

\* C40: parseConfig and mapDbConfigToScheduleConfig normalize the same
\* stored config to the same policy values: the snake_case and the camelCase
\* spelling of a value give the same result, and a missing minInterval,
\* maxInterval or strategy falls back to 30, 40 and ignore in both.
ConfigReadersAgree ==
  calc.phase = "parsed" =>
    LET c == calc.dbConfig
        absent(camel, snake) == c[camel] = Missing /\ c[snake] = Missing
    IN  /\ calc.parsed.minInterval = calc.mapped.minInterval
        /\ calc.parsed.maxInterval = calc.mapped.maxInterval
        /\ calc.parsed.businessHoursStrategy
             = calc.mapped.businessHoursStrategy
        /\ calc.parsed.useBatching = calc.mapped.useBatching
        /\ calc.parsed.minInterval
             = IF absent("minInterval", "min_interval") THEN 30 ELSE 10
        /\ calc.parsed.maxInterval
             = IF absent("maxInterval", "max_interval") THEN 40 ELSE 20
        /\ calc.parsed.businessHoursStrategy
             = IF absent("businessHoursStrategy", "business_hours")
                 THEN "ignore" ELSE "pause"

====
